---- MODULE Spec2Model ----
(***************************************************************************)
(* Fair multi-source article collector of the News_Intelligence actors:    *)
(* the feed reader and round-robin scheduler (fetch_rss_feeds, in its      *)
(* pass-based and its queue-based form), the deduplication filter and the  *)
(* recycling policy (rss_fetcher) and the per-article processing loop.     *)
(***************************************************************************)
EXTENDS Integers, Sequences, FiniteSets, TLC

\* ------------------------------------------------------------------ bounds
MaxEntries == 3     \* entries of one feed, feeds with unparseable entries
PlainMax == 7       \* entries of one feed, feeds whose entries all parse
MaxQuota == 4       \* max_articles given to the collector
LuxEntries == 2     \* entries per feed of the luxury-lifestyle collector

\* ------------------------------------------------------- program structure
\* feed_map: the named sources in dictionary order (three stand for the map)
FeedKeys == <<"u1", "u2", "u3">>
CustomUrl == "uc"
AllUrls == {"u1", "u2", "u3", "uc"}
\* CATEGORIZED_FEEDS of the queue-based actors: category -> list of urls
Categories == {"cat1", "cat2"}
CategorizedFeeds == [c \in Categories |-> IF c = "cat1" THEN <<"u1", "u2">> ELSE <<"u3">>]
CategoryOrder == <<"cat1", "cat2">>

Min(a, b) == IF a < b THEN a ELSE b
Range(s) == {s[k] : k \in 1..Len(s)}
Take(s, n) == SubSeq(s, 1, Min(n, Len(s)))
SeqsUpTo(S, n) == UNION {[1..k -> S] : k \in 0..n}

\* What feedparser.parse(url) gives: it raises ("error") or returns a feed whose
\* entries are links; link 0 is a link RSSFeed(...) rejects (validation error).
DeadFeed == [status |-> "error", entries |-> <<>>]
BadLink == 0
Parses(link) == link # BadLink

VARIABLES
    actor,       \* which actor's code runs
    source,      \* config.source
    custom_url,  \* config.customFeedUrl ("" when not given)
    max_articles,\* config.maxArticles
    web,         \* what each url returns in this run
    pc,          \* position of the run
    st,          \* the collector's loop state
    test_mode,   \* config.runTestMode
    key_ok,      \* the OPENAI_API_KEY environment variable is set
    store,       \* keys of the processed-urls store (it outlives the runs)
    seen0,       \* the store as the run found it
    articles,    \* state["articles"]: the articles handed to processing
    processed_count, \* state["processed_count"]
    recycled,    \* the run took the recycling branch of rss_fetcher
    pushed,      \* links of the records the run pushed to the dataset
    last,        \* what the latest processing step did
    exit,        \* how the latest run ended
    api_state,   \* newsdata: the stored API_USAGE_STATE
    nd,          \* newsdata: the locals of main, and sent_at, the value of
                 \* requests_today when the run sent its latest request (-1: none yet)
    calls,       \* what the run has called outside the process so far
    use_summarization, \* global-markets: config.useSummarization
    runs,        \* overlapping runs of one actor: the position of each
    dedup,       \* the latest entry put to the store, as text, and the answer
    search,      \* gdelt: the locals of fetch_summary_from_google, and its results
    fan,         \* fan-out actors: the topics, the tasks and the merged output
    pick,        \* the latest choice of a summary: what each source had, and the outcome
    graph,       \* global-markets: the processing graph under its recursion limit
    earlier,     \* the links for which the runs before this one pushed a record
    auto,        \* content autopilot: the locals of main and the actors it called
    cat,         \* category correction: the data frame and the locals of the propagation
    yp           \* Yellow Pages scraper: the link cache, the locals of run, and the
                 \* links passed to the detail scraper in this run and before it

run == <<test_mode, key_ok, store, seen0, articles, processed_count, recycled,
         pushed, last, exit, api_state, nd, calls, use_summarization>>

\* the variables of the components that run beside the pipeline
more == <<pick, graph, earlier, auto, yp, cat>>
side == <<runs, dedup, search, fan, more>>
\* the pipeline and the components above: what the components below leave alone
base == <<actor, source, custom_url, max_articles, web, pc, st, run, runs, dedup, search, fan>>

NoRuns == <<>>
NoText == [space |-> FALSE, host_upper |-> FALSE, path_upper |-> FALSE, none |-> TRUE]
NoEntry == [text |-> NoText, is_new |-> FALSE, marked |-> {}]

NoSearch == [pc |-> "idle", attempt |-> 0, statuses |-> <<>>, waits |-> <<>>,
             result |-> "", log |-> <<>>]

NoFan == [pc |-> "idle", topics |-> <<>>, results |-> <<>>, order |-> <<>>, output |-> <<>>]

NoPick == [test |-> FALSE, strict |-> FALSE, loose |-> FALSE, rss |-> "na",
           consulted |-> <<>>, outcome |-> [summary |-> "na"]]

NoGraph == [pc |-> "idle", max |-> 0, rss |-> 0, av |-> 0, n |-> 0, recursion_limit |-> 0,
            step |-> 0, processed_count |-> 0]

\* ai-content-autopilot main.py 55-78, 102, 124, 145: the locals of main as they
\* are set before the stages; ran lists the actors called, each with the dataset
\* it was given
None == "None"
NoAuto == [pc |-> "idle", pipelines |-> "valid",
           run_aggregator |-> TRUE, run_keyword_analysis |-> TRUE,
           run_sentiment_analysis |-> TRUE, run_idea_generation |-> TRUE,
           aggregator_dataset_id |-> None, keyword_dataset_id |-> None,
           sentiment_dataset_id |-> None, content_dataset_id |-> None,
           cleaned_from |-> None, ran |-> <<>>, final_datasets |-> {}]

\* Yellow Pages scraper_logic.py 373-441: cache is the stored list of processed
\* links (as a set), cache0 the cache as the run found it; attempted lists the
\* links given to _run_selector_path in this run, before those given in earlier
\* runs; faults tells which calls have raised so far
NoYp == [pc |-> "idle", cache |-> {}, cache0 |-> {}, processed_links |-> {}, max_total |-> 0,
         source_links |-> <<>>, i |-> 1, crawled_urls |-> <<>>,
         attempted |-> <<>>, before |-> {}, faults |-> {}]

\* process_categories.py: the columns parent_id_corrected and type_corrected by
\* record_id, the map id_to_type_map, and the pass number i
NoCat == [pc |-> "idle", parent_id_corrected |-> <<>>, type_corrected |-> <<>>,
          id_to_type_map |-> <<>>, i |-> 1]

MoreInit ==
    /\ pick = NoPick /\ graph = NoGraph /\ earlier = {} /\ auto = NoAuto /\ yp = NoYp
    /\ cat = NoCat

SideInit == runs = NoRuns /\ dedup = NoEntry /\ search = NoSearch /\ fan = NoFan /\ MoreInit

vars == <<actor, source, custom_url, max_articles, web, pc, st, run, side>>

\* ------------------------------------------------------------ source choice
\* health-fitness tools.py 80-84 (same in social-media, cybersecurity, ...)
SelectUrlsMap(src, cu) ==
    IF src = "custom" /\ cu # "" THEN <<cu>>
    ELSE IF src = "all" THEN FeedKeys
    ELSE IF src \in Range(FeedKeys) THEN <<src>>
    ELSE <<>>

\* world-news tools.py 80-100: None stands for the early "return []"
SelectUrlsCategories(src, cu) ==
    IF src = "custom" /\ cu # "" THEN <<cu>>
    ELSE IF src = "all" THEN CategorizedFeeds[CategoryOrder[1]] \o CategorizedFeeds[CategoryOrder[2]]
    ELSE IF src \in Categories THEN CategorizedFeeds[src]
    ELSE <<>>

IsQueueActor(a) == a \in {"world", "markets"}

\* luxury-lifestyle tools.py 27-60: the feeds of Luxury Daily, kept as one list
luxury_daily_feeds == <<"u1", "u2">>

\* luxury-lifestyle tools.py 62-80: feed_map, a url or a list of urls per key;
\* "custom" is its last key
LuxuryKeys == <<"u3", "luxurydaily">>
LuxuryFeedMap == [k \in Range(LuxuryKeys) |-> IF k = "luxurydaily" THEN luxury_daily_feeds ELSE <<k>>]

\* luxury-lifestyle tools.py 83-98: a list value is spread into urls
SelectUrlsLuxury(src, cu) ==
    IF src = "custom" /\ cu # "" THEN <<cu>>
    ELSE IF src = "all" THEN LuxuryFeedMap[LuxuryKeys[1]] \o LuxuryFeedMap[LuxuryKeys[2]]
    ELSE IF src \in Range(LuxuryKeys) THEN LuxuryFeedMap[src]
    ELSE <<>>

SelectUrls(a, src, cu) ==
    IF IsQueueActor(a) THEN SelectUrlsCategories(src, cu)
    ELSE IF a = "luxury" THEN SelectUrlsLuxury(src, cu)
    ELSE SelectUrlsMap(src, cu)

\* the title kept with a parsed feed: the feed's own title, which stands for the
\* url here, except that every Luxury Daily feed is titled "Luxury Daily"
\* (luxury-lifestyle tools.py 106-109)
SourceTitle(a, u) ==
    IF a = "luxury" /\ u \in Range(luxury_daily_feeds) THEN "Luxury Daily" ELSE u

\* the lists that hold every element of S once
ListsOf(S) ==
    {q \in [1..Cardinality(S) -> S] : \A x \in S : \E k \in 1..Cardinality(S) : q[k] = x}

\* global-markets tools.py 98: for "all" the urls go through set(...), and
\* list(set(...)) lists them in the order of their hashes, which differs from one
\* process to the next; every other selection is a list in configured order
UrlOrders(a, src, cu) ==
    IF a = "markets" /\ src = "all"
    THEN ListsOf(Range(SelectUrlsCategories(src, cu)))
    ELSE {SelectUrls(a, src, cu)}

\* ------------------------------------------------------------- feed reader
\* tools.py 86-95 / 105-116: a feed that raises or has no entries is left out
IsLive(w, u) == w[u].status = "ok" /\ w[u].entries # <<>>

ParsedFeeds(w, urls) == SelectSeq(urls, LAMBDA u : IsLive(w, u))

\* --------------------------------------------------------- scheduler state
\* branch: which loop of fetch_rss_feeds runs; feed_queue: the deque (queue-based)
\* or available_feeds (pass-based); i: the position of the for loop (1-based);
\* feeds_to_remove: indices collected in this pass; it: how many entries each
\* iterator has yielded; raised: an exception left the function; urls: the list
\* of urls the function went through; title: the source title kept with each
\* parsed feed.
LoopState(branch, feeds) ==
    [branch |-> branch, feed_queue |-> feeds, i |-> 1, feeds_to_remove |-> {},
     it |-> [u \in AllUrls |-> 0], articles |-> <<>>, done |-> FALSE, raised |-> FALSE,
     urls |-> <<>>, title |-> [u \in AllUrls |-> u]]

NoLoop == LoopState("none", <<>>)

RSSFeed(link, source_title) == [link |-> link, source |-> source_title]

\* health-fitness tools.py 97-98, 112; world-news tools.py 118-126
LoopInit(a, src, w, urls) ==
    LET parsed_feeds == ParsedFeeds(w, urls)
        s == IF IsQueueActor(a) THEN LoopState("queue", parsed_feeds)
             ELSE IF Len(parsed_feeds) > 1 /\ src = "all" THEN LoopState("pass", parsed_feeds)
             ELSE IF Len(parsed_feeds) = 1 THEN LoopState("single", parsed_feeds)
             ELSE LoopState("none", <<>>)
    IN  [s EXCEPT !.urls = urls, !.title = [u \in AllUrls |-> SourceTitle(a, u)]]

\* the loop condition with <= for <: one entry too many is collected
WhileCondOffByOne(s, max) == Len(s.articles) <= max /\ s.feed_queue # <<>>

\* world-news tools.py 128: while len(articles) < max_articles and feed_queue
WhileCond(s, max) == Len(s.articles) < max /\ s.feed_queue # <<>>

\* the poll with the source put back at the front (appendleft for append): the
\* first source is read to its end before the next one is polled
QueuePollFront(s, w) ==
    LET u == Head(s.feed_queue)
        rest == Tail(s.feed_queue)
    IN  IF s.it[u] >= Len(w[u].entries)
        THEN [s EXCEPT !.feed_queue = rest]
        ELSE LET link == w[u].entries[s.it[u] + 1] IN
             IF Parses(link)
             THEN [s EXCEPT !.it[u] = @ + 1,
                            !.articles = Append(@, RSSFeed(link, s.title[u])),
                            !.feed_queue = <<u>> \o rest]
             ELSE [s EXCEPT !.it[u] = @ + 1, !.feed_queue = rest]

\* the poll that puts an exhausted source back at the end of the queue, to be
\* tried again
QueuePollRetry(s, w) ==
    LET u == Head(s.feed_queue)
        rest == Tail(s.feed_queue)
    IN  IF s.it[u] >= Len(w[u].entries)
        THEN [s EXCEPT !.feed_queue = Append(rest, u)]
        ELSE LET link == w[u].entries[s.it[u] + 1] IN
             IF Parses(link)
             THEN [s EXCEPT !.it[u] = @ + 1,
                            !.articles = Append(@, RSSFeed(link, s.title[u])),
                            !.feed_queue = Append(rest, u)]
             ELSE [s EXCEPT !.it[u] = @ + 1, !.feed_queue = rest]

\* world-news tools.py 129-149 (global-markets tools.py 123-138): one poll
QueuePoll(s, w) ==
    LET u == Head(s.feed_queue)
        rest == Tail(s.feed_queue)
    IN  IF s.it[u] >= Len(w[u].entries)
        THEN [s EXCEPT !.feed_queue = rest]                       \* StopIteration
        ELSE LET link == w[u].entries[s.it[u] + 1] IN
             IF Parses(link)
             THEN [s EXCEPT !.it[u] = @ + 1,
                            !.articles = Append(@, RSSFeed(link, s.title[u])),
                            !.feed_queue = Append(rest, u)]
             ELSE [s EXCEPT !.it[u] = @ + 1, !.feed_queue = rest] \* except Exception

\* list.pop(index)
Pop(seq, index) == SubSeq(seq, 1, index - 1) \o SubSeq(seq, index + 1, Len(seq))

SetMax(S) == CHOOSE m \in S : \A k \in S : k <= m

\* health-fitness tools.py 111: for index in sorted(feeds_to_remove, reverse=True)
RECURSIVE PopAll(_, _)
PopAll(seq, indices) ==
    IF indices = {} THEN seq
    ELSE PopAll(Pop(seq, SetMax(indices)), indices \ {SetMax(indices)})

\* the pass that stays on a feed as long as it yields entries (the for loop
\* position is not advanced after an entry): the first feed is read to its end
PassPollStay(s, w, max) ==
    IF s.i > Len(s.feed_queue) \/ Len(s.articles) >= max
    THEN [s EXCEPT !.feed_queue = PopAll(@, s.feeds_to_remove),
                   !.feeds_to_remove = {}, !.i = 1]
    ELSE LET u == s.feed_queue[s.i] IN
         IF s.it[u] >= Len(w[u].entries)
         THEN [s EXCEPT !.feeds_to_remove = @ \cup {s.i}, !.i = @ + 1]
         ELSE LET link == w[u].entries[s.it[u] + 1] IN
              IF Parses(link)
              THEN [s EXCEPT !.it[u] = @ + 1,
                             !.articles = Append(@, RSSFeed(link, s.title[u]))]
              ELSE [s EXCEPT !.it[u] = @ + 1,
                             !.feeds_to_remove = @ \cup {s.i}, !.i = @ + 1]

\* health-fitness tools.py 102-111: one iteration of the for loop of a pass, or,
\* when the for loop is over (end of list, or break at the quota), the removals
PassPoll(s, w, max) ==
    IF s.i > Len(s.feed_queue) \/ Len(s.articles) >= max
    THEN [s EXCEPT !.feed_queue = PopAll(@, s.feeds_to_remove),
                   !.feeds_to_remove = {}, !.i = 1]
    ELSE LET u == s.feed_queue[s.i] IN
         IF s.it[u] >= Len(w[u].entries)
         THEN [s EXCEPT !.feeds_to_remove = @ \cup {s.i}, !.i = @ + 1]
         ELSE LET link == w[u].entries[s.it[u] + 1] IN
              IF Parses(link)
              THEN [s EXCEPT !.it[u] = @ + 1,
                             !.articles = Append(@, RSSFeed(link, s.title[u])),
                             !.i = @ + 1]
              ELSE [s EXCEPT !.it[u] = @ + 1,
                             !.feeds_to_remove = @ \cup {s.i}, !.i = @ + 1]

\* health-fitness tools.py 113-116: one iteration of the single-feed for loop;
\* the RSSFeed(...) call is in no try block, so a rejected link raises
SinglePoll(s, w, max) ==
    LET u == s.feed_queue[1] IN
    IF s.it[u] >= Len(w[u].entries) THEN [s EXCEPT !.done = TRUE]
    ELSE LET link == w[u].entries[s.it[u] + 1] IN
         IF s.i - 1 >= max THEN [s EXCEPT !.it[u] = @ + 1, !.done = TRUE]   \* break
         ELSE IF Parses(link)
         THEN [s EXCEPT !.it[u] = @ + 1, !.i = @ + 1,
                        !.articles = Append(@, RSSFeed(link, s.title[u]))]
         ELSE [s EXCEPT !.it[u] = @ + 1, !.raised = TRUE]

\* Is there another step of the loop to take
Running(s, max) ==
    CASE s.branch = "queue" -> WhileCond(s, max)
      [] s.branch = "pass" -> ~(s.i = 1 /\ ~WhileCond(s, max))
      [] s.branch = "single" -> ~s.done /\ ~s.raised
      [] OTHER -> FALSE

Step(s, w, max) ==
    CASE s.branch = "queue" -> QueuePoll(s, w)
      [] s.branch = "pass" -> PassPoll(s, w, max)
      [] OTHER -> SinglePoll(s, w, max)

RECURSIVE RunLoop(_, _, _)
RunLoop(s, w, max) == IF Running(s, max) THEN RunLoop(Step(s, w, max), w, max) ELSE s

\* fetch_rss_feeds as a function of its arguments and of what the urls return:
\* the final loop state (articles returned, or raised)
FetchRssFeeds(a, src, cu, max, w) == RunLoop(LoopInit(a, src, w, SelectUrls(a, src, cu)), w, max)

\* ---------------------------------------------------- collector, stepwise
\* feeds with at most MaxEntries entries, some of which may fail to parse; an
\* entry that parses carries its position in the feed as its link
RichFeeds ==
    {DeadFeed} \cup
    {[status |-> "ok", entries |-> e] : e \in
        {f \in SeqsUpTo(0..MaxEntries, MaxEntries) : \A k \in 1..Len(f) : f[k] \in {BadLink, k}}}

\* the same with at most LuxEntries entries
LuxFeeds ==
    {DeadFeed} \cup
    {[status |-> "ok", entries |-> e] : e \in
        {f \in SeqsUpTo(0..LuxEntries, LuxEntries) : \A k \in 1..Len(f) : f[k] \in {BadLink, k}}}

\* feeds of 1..PlainMax entries which all parse
PlainFeeds == {[status |-> "ok", entries |-> [k \in 1..n |-> k]] : n \in 1..PlainMax}

TotalEntries(w, urls) ==
    LET RECURSIVE Sum(_)
        Sum(k) == IF k = 0 THEN 0 ELSE Len(w[urls[k]].entries) + Sum(k - 1)
    IN Sum(Len(urls))

\* the web seen by a run that reads `urls`: the other urls are not read
WebOver(urls, feeds) ==
    {[u \in AllUrls |-> IF u \in Range(urls) THEN f[u] ELSE DeadFeed] : f \in [Range(urls) -> feeds]}

Sources == {"all", "u2", "cat1", "custom", "other"}

\* the pipeline's variables before any run
Attempt(link, summary, sentiment, storage) ==
    [link |-> link, summary |-> summary, sentiment |-> sentiment, storage |-> storage,
     pushed |-> storage \in {"ok", "set_failed"}, marked |-> storage = "ok",
     raised |-> storage \notin {"ok", "na"}]
NoAttempt == Attempt(BadLink, "na", "na", "na")
NoState == [requests_today |-> 0, last_reset_date |-> 0]
NoLocals == [use_openai |-> FALSE, enable_paid_tier |-> FALSE, requests_today |-> 0,
             last_reset_date |-> 0, articles_fetched |-> 0, page |-> 1, next_page |-> FALSE,
             new_articles |-> <<>>, idx |-> 1, sent_at |-> -1]

RunInit ==
    /\ test_mode = FALSE
    /\ key_ok = TRUE
    /\ store = {}
    /\ seen0 = {}
    /\ articles = <<>>
    /\ processed_count = 0
    /\ recycled = FALSE
    /\ pushed = <<>>
    /\ last = NoAttempt
    /\ exit = "none"
    /\ api_state = NoState
    /\ nd = NoLocals
    /\ calls = {}
    /\ use_summarization = FALSE

CollectInit ==
    /\ actor \in {"health", "world"}
    /\ source \in Sources
    /\ custom_url \in {"", CustomUrl}
    /\ source # "custom" => custom_url = ""
    /\ \/ /\ web \in WebOver(SelectUrls(actor, source, custom_url), RichFeeds)
          /\ max_articles \in 0..MaxQuota
       \/ /\ source = "all"
          /\ web \in WebOver(SelectUrls(actor, source, custom_url), PlainFeeds)
          /\ max_articles \in 1..TotalEntries(web, SelectUrls(actor, source, custom_url))
    /\ pc = "parse"
    /\ st = NoLoop
    /\ RunInit
    /\ SideInit

ParseFeeds ==
    /\ pc = "parse"
    /\ \E us \in UrlOrders(actor, source, custom_url) :
          st' = LoopInit(actor, source, web, us)
    /\ pc' = "poll"
    /\ UNCHANGED <<actor, source, custom_url, max_articles, web, run>>
    /\ UNCHANGED side

Poll ==
    /\ pc = "poll"
    /\ Running(st, max_articles)
    /\ st' = Step(st, web, max_articles)
    /\ UNCHANGED <<actor, source, custom_url, max_articles, web, pc, run>>
    /\ UNCHANGED side

Return ==
    /\ pc = "poll"
    /\ ~Running(st, max_articles)
    /\ pc' = IF st.raised THEN "raised" ELSE "returned"
    /\ UNCHANGED <<actor, source, custom_url, max_articles, web, st, run>>
    /\ UNCHANGED side

CollectNext == ParseFeeds \/ Poll \/ Return

CollectSpec == CollectInit /\ [][CollectNext]_vars

\* the collector runs on until it returns: nothing in it waits
CollectLiveSpec == CollectSpec /\ WF_vars(CollectNext)

\* the collectors that keep a queue of sources, every selection of categories
OrderInit ==
    /\ actor \in {"world", "markets"}
    /\ source \in {"all", "cat1", "cat2"}
    /\ custom_url = ""
    /\ web \in WebOver(SelectUrls(actor, source, custom_url), RichFeeds)
    /\ max_articles \in 0..MaxQuota
    /\ pc = "parse"
    /\ st = NoLoop
    /\ RunInit
    /\ SideInit

OrderSpec == OrderInit /\ [][CollectNext]_vars

\* the luxury-lifestyle collector, every selection of its feed map
LuxuryInit ==
    /\ actor = "luxury"
    /\ source \in {"all", "u3", "luxurydaily", "custom", "other"}
    /\ custom_url \in {"", CustomUrl}
    /\ source # "custom" => custom_url = ""
    /\ web \in WebOver(SelectUrls(actor, source, custom_url), LuxFeeds)
    /\ max_articles \in 0..MaxQuota
    /\ pc = "parse"
    /\ st = NoLoop
    /\ RunInit
    /\ SideInit

LuxurySpec == LuxuryInit /\ [][CollectNext]_vars

\* ------------------------------------------------------------ the pipeline
PipeEntries == 1    \* entries of one feed in a pipeline run
PipeQuota == 3      \* largest maxArticles of a pipeline run, the default aside

\* the article links the web can serve
Links == {1, 2}
\* maxArticles of INPUT_SCHEMA.json (social-media main.py 152)
DefaultMaxArticles == 20

RssActors == {"health", "social"}

\* hashlib.md5(str(link).encode('utf-8')).hexdigest(): a key per link text
Md5(text) == <<"md5", text>>
UrlKey(link) == Md5(link)

\* a store in which writing a key that is there takes it out again
SetValueToggle(kv, key) == IF key \in kv THEN kv \ {key} ELSE kv \cup {key}

\* processed_urls_store.set_value(key=url_key, value=True) (health-fitness
\* main.py 127): the store maps the key to True, whatever it held before
SetValue(kv, key) == kv \cup {key}

\* the filter looks the link up under the key of another hash
IsDuplicateOtherKey(kv, art) == <<"sha256", art.link>> \in kv

\* health-fitness main.py 44-46: the store holds True under the key of a seen link
IsDuplicate(kv, art) == UrlKey(art.link) \in kv

\* the recycling step without its membership test: the fetched list is appended
\* again from its start
RecycleFromStart(all, new, max) == new \o Take(all, max - Len(new))

\* health-fitness main.py 50-55: new_articles extended by the fetched articles
\* that are not in it, cut to `needed`
Recycle(all, new, max) ==
    LET needed == max - Len(new)
        remaining == Take(SelectSeq(all, LAMBDA a : a \notin Range(new)), needed)
    IN  new \o remaining

\* rss_fetcher after the collector returned `all` (health-fitness main.py 40-58,
\* social-media main.py 41-63)
FilterAndRecycle(a, all, kv, max) ==
    LET new == SelectSeq(all, LAMBDA x : ~IsDuplicate(kv, x))
    IN  IF a = "social"
        THEN IF Len(new) < max /\ all # <<>>
             THEN [articles |-> Recycle(all, new, max), recycled |-> TRUE]
             ELSE IF all = <<>> THEN [articles |-> <<>>, recycled |-> FALSE]
             ELSE [articles |-> new, recycled |-> FALSE]
        ELSE IF Len(new) < max
             THEN [articles |-> Recycle(all, new, max), recycled |-> TRUE]
             ELSE [articles |-> new, recycled |-> FALSE]

\* should_continue with the comparison off by one: an empty batch continues
ShouldContinueOffByOne(a, arts, count) ==
    IF a = "social" /\ arts = <<>> THEN "end"
    ELSE IF count <= Len(arts) THEN "continue" ELSE "end"

\* should_continue (health-fitness main.py 131-134, social-media main.py 135-143)
ShouldContinue(a, arts, count) ==
    IF a = "social" /\ arts = <<>> THEN "end"
    ELSE IF count < Len(arts) THEN "continue" ELSE "end"

Route(a, arts, count) ==
    IF ShouldContinue(a, arts, count) = "continue" THEN "ProcessAndSaveArticle" ELSE "end"

\* social-media main.py 151-166: the default input is turned into a minimal test
\* run (region and timeLimit are left at their defaults in every run modelled)
Maintenance(a, src, max, test) ==
    a = "social" /\ src = "all" /\ max = DefaultMaxArticles /\ ~test

\* the feeds that answer in a pipeline run; the other urls are down
PipeUrls == {"u1", "u2"}

PipeFeeds ==
    {DeadFeed} \cup
    {[status |-> "ok", entries |-> e] :
        e \in (SeqsUpTo(Links, PipeEntries) \ {<<>>}) \cup {<<BadLink>>}}

\* feedparser.parse(feed_url) goes to the network for every url chosen
\* (health-fitness tools.py 86-95); the mode of the run is not looked at
FeedCalls(urls) == IF urls = <<>> THEN {} ELSE {"feed"}

\* the processing step without the test-mode branches of its tools: the search
\* and the model are called whatever the mode
ProcessCallsNoBypass(test, o) ==
    {"search"}
    \cup (IF o.summary \in {"strict", "loose"} THEN {"llm"} ELSE {})
    \cup (IF o.sentiment \in {"ok", "Error"} THEN {"llm"} ELSE {})

\* the calls a processing step is known to have made: outside test mode the
\* search of priority 1 always, the model behind a summary that came from a
\* search, and the model behind an analysis that was not refused for length
\* (health-fitness tools.py 122-237)
ProcessCalls(test, o) ==
    IF test THEN {}
    ELSE {"search"}
         \cup (IF o.summary \in {"strict", "loose"} THEN {"llm"} ELSE {})
         \cup (IF o.sentiment \in {"ok", "Error"} THEN {"llm"} ELSE {})

\* main up to the start of the graph (health-fitness main.py 136-171)
Main ==
    /\ pc = "idle"
    /\ actor \in RssActors
    /\ \E src \in {"all", "u2"}, max \in (0..PipeQuota) \cup {DefaultMaxArticles},
          test \in BOOLEAN, key \in BOOLEAN :
          \E w \in WebOver(SelectSeq(SelectUrls(actor, src, ""), LAMBDA u : u \in PipeUrls),
                            PipeFeeds) :
            LET maint == Maintenance(actor, src, max, test)
                tm == maint \/ test
            IN  /\ source' = src
                /\ custom_url' = ""
                /\ max_articles' = IF maint THEN 1 ELSE max
                /\ test_mode' = tm
                /\ key_ok' = key
                /\ web' = w
                /\ IF ~tm /\ ~key
                   THEN pc' = "done" /\ exit' = "exit_code_1" /\ calls' = {}
                   ELSE pc' = "RSSFetcher" /\ exit' = "none" /\ calls' = {"open_store"}
    /\ UNCHANGED side
    /\ UNCHANGED use_summarization
    /\ UNCHANGED <<actor, st, store, seen0, articles, processed_count, recycled,
                   pushed, last, api_state, nd>>

\* the node RSSFetcher and the edge that leaves it
RssFetcher ==
    /\ pc = "RSSFetcher"
    /\ LET got == FetchRssFeeds(actor, source, custom_url, max_articles, web)
           res == FilterAndRecycle(actor, got.articles, store, max_articles)
       IN  IF got.raised
           THEN /\ pc' = "done"
                /\ exit' = "error"
                /\ UNCHANGED <<articles, recycled>>
           ELSE /\ articles' = res.articles
                /\ recycled' = res.recycled
                /\ pc' = Route(actor, res.articles, 0)
                /\ UNCHANGED exit
    /\ processed_count' = 0
    /\ calls' = calls \cup FeedCalls(SelectUrls(actor, source, custom_url)) \cup {"get_value"}
    /\ UNCHANGED side
    /\ UNCHANGED use_summarization
    /\ UNCHANGED <<actor, source, custom_url, max_articles, web, st, test_mode, key_ok,
                   store, seen0, pushed, last, api_state, nd>>

\* the storage calls of one article in order, push_data then set_value: the
\* first that fails raises (health-fitness main.py 123-127)
Storage(push, setv) ==
    IF ~push THEN "push_failed" ELSE IF ~setv THEN "set_failed" ELSE "ok"

\* the choice of a summary with the entry's own summary preferred to the searches
SummaryFeedFirst(test, strict, loose, rss) ==
    IF rss = "long" THEN "rss"
    ELSE IF test \/ strict THEN "strict"
    ELSE IF loose THEN "loose" ELSE "none"

\* the summary of an article by priority (health-fitness main.py 73-102).
\* strict, loose: the search of priority 1, 2 gave a summary; rss: the entry's own
\* summary is "none" (absent or under 50 characters), "long", or "tags" (nothing
\* is left once the markup is stripped).  In test mode the search is canned.
Summary(test, strict, loose, rss) ==
    IF test \/ strict THEN "strict"
    ELSE IF loose THEN "loose"
    ELSE IF rss = "long" THEN "rss" ELSE "none"

\* the sources process_and_save_article turns to, in the order of its calls
\* (health-fitness main.py 75-102): the strict search always, the loose search
\* if ai_overview is still empty, strip_html_tags on the entry's summary if it
\* is still empty and the raw summary has 50 characters or more once trimmed
Consulted(test, strict, loose, rss) ==
    LET after1 == test \/ strict
        c2 == IF ~after1 THEN <<"strict", "loose">> ELSE <<"strict">>
        after2 == after1 \/ test \/ loose
    IN  IF ~after2 /\ rss \in {"long", "tags"} THEN Append(c2, "rss") ELSE c2

\* an article without a summary ends the run instead of being skipped
ProcessOutcomeExitOnFailure(art, test, strict, loose, rss, analysis, push, setv) ==
    LET summary == Summary(test, strict, loose, rss)
    IN  IF summary = "none"
        THEN [Attempt(art.link, "none", "na", "na") EXCEPT !.raised = TRUE]
        ELSE Attempt(art.link, summary, IF test THEN "ok" ELSE analysis, Storage(push, setv))

\* set_value before push_data: the key is written although the push failed
ProcessOutcomeMarkFirst(art, test, strict, loose, rss, analysis, push, setv) ==
    LET summary == Summary(test, strict, loose, rss)
    IN  IF summary = "none"
        THEN Attempt(art.link, "none", "na", "na")
        ELSE [Attempt(art.link, summary, IF test THEN "ok" ELSE analysis, Storage(push, setv))
              EXCEPT !.marked = setv, !.pushed = push /\ setv]

\* process_and_save_article on one article (health-fitness main.py 73-129).
\* analysis: "ok", "Error" (the call failed), "N/A" (summary under 20
\* characters); in test mode the analysis is canned.  push, setv: the storage
\* call succeeded.
ProcessOutcome(art, test, strict, loose, rss, analysis, push, setv) ==
    LET summary == Summary(test, strict, loose, rss)
    IN  IF summary = "none"
        THEN Attempt(art.link, "none", "na", "na")
        ELSE Attempt(art.link, summary, IF test THEN "ok" ELSE analysis, Storage(push, setv))

RssKinds == {"none", "long", "tags"}
AnalysisKinds == {"ok", "Error", "N/A"}

\* the node ProcessAndSaveArticle and the edge that leaves it; an exception of a
\* storage call leaves the graph and main
ProcessAndSaveArticle ==
    /\ pc = "ProcessAndSaveArticle"
    /\ IF processed_count >= Len(articles)
       THEN /\ pc' = Route(actor, articles, processed_count)
            /\ UNCHANGED <<processed_count, store, pushed, last, exit, calls>>
       ELSE \E strict \in BOOLEAN, loose \in BOOLEAN, rss \in RssKinds,
               analysis \in AnalysisKinds, push \in BOOLEAN, setv \in BOOLEAN :
              LET art == articles[processed_count + 1]
                  o == ProcessOutcome(art, test_mode, strict, loose, rss, analysis, push, setv)
              IN  /\ last' = o
                  /\ calls' = calls \cup ProcessCalls(test_mode, o)
                  /\ pushed' = IF o.pushed THEN Append(pushed, art.link) ELSE pushed
                  /\ store' = IF o.marked THEN SetValue(store, UrlKey(art.link)) ELSE store
                  /\ IF o.raised
                     THEN /\ pc' = "done"
                          /\ exit' = "error"
                          /\ UNCHANGED processed_count
                     ELSE /\ processed_count' = processed_count + 1
                          /\ pc' = Route(actor, articles, processed_count + 1)
                          /\ UNCHANGED exit
    /\ UNCHANGED side
    /\ UNCHANGED use_summarization
    /\ UNCHANGED <<actor, source, custom_url, max_articles, web, st, test_mode, key_ok,
                   seen0, articles, recycled, api_state, nd>>

\* process_and_save_article on one article, with what each source of a summary
\* had for it kept beside the outcome
SummarizeArticle ==
    /\ pc = "idle"
    /\ \E test \in BOOLEAN, strict \in BOOLEAN, loose \in BOOLEAN, rss \in RssKinds,
          analysis \in AnalysisKinds, push \in BOOLEAN, setv \in BOOLEAN, link \in Links :
          pick' = [test |-> test, strict |-> strict, loose |-> loose, rss |-> rss,
                   consulted |-> Consulted(test, strict, loose, rss),
                   outcome |-> ProcessOutcome(RSSFeed(link, "u1"), test, strict, loose, rss,
                                              analysis, push, setv)]
    /\ UNCHANGED <<base, graph, earlier, auto, yp, cat>>

\* ------------------------------ global-markets-intelligence-pipeline-ai-powered
MaxAv == 1     \* items in the feed of an Alpha Vantage answer
GmQuota == 1   \* largest maxArticles of a global-markets run
AvOnly == "Alpha Vantage News"
Article(link, source_title) == [link |-> link, source |-> source_title]

\* fetch_alpha_vantage_articles (global-markets tools.py 144-196): two dummy
\* articles in test mode, nothing without the ALPHA_VANTAGE_API key or when the
\* request fails, else every item of the answer's feed
FetchAlphaVantageArticles(test, av_key, av_ok, feed) ==
    IF test THEN <<Article(1, "Alpha Vantage"), Article(2, "Alpha Vantage")>>
    ELSE IF ~av_key \/ ~av_ok THEN <<>>
    ELSE [k \in 1..Len(feed) |-> Article(feed[k], "Alpha Vantage")]

\* main up to the start of the graph (global-markets main.py 112-182).  No key
\* is looked at here: init_gemini is first called inside the processing node.
GmMain ==
    /\ pc = "idle"
    /\ actor = "markets"
    /\ \E src \in {"all", AvOnly}, max \in 0..GmQuota, test \in BOOLEAN, key \in BOOLEAN,
          use \in BOOLEAN, av_key \in BOOLEAN, av_ok \in BOOLEAN, feed \in SeqsUpTo(Links, MaxAv) :
          \E w \in WebOver(SelectSeq(SelectUrls(actor, src, ""), LAMBDA u : u \in PipeUrls),
                            PipeFeeds),
             us \in UrlOrders(actor, src, "") :
            LET rss_articles == IF src = AvOnly THEN <<>>
                                ELSE RunLoop(LoopInit(actor, src, w, us), w, max).articles
                av_articles == FetchAlphaVantageArticles(test, av_key, av_ok, feed)
                all_articles == rss_articles \o av_articles
            IN  /\ source' = src
                /\ custom_url' = ""
                /\ max_articles' = max
                /\ test_mode' = test
                /\ key_ok' = key
                /\ use_summarization' = use
                /\ web' = w
                /\ articles' = all_articles
                /\ calls' = (IF src = AvOnly THEN {} ELSE FeedCalls(us))
                             \cup (IF ~test /\ av_key THEN {"av"} ELSE {})
                /\ pc' = IF all_articles = <<>> THEN "end" ELSE "GmProcess"
    /\ processed_count' = 0
    /\ exit' = "none"
    /\ UNCHANGED side
    /\ UNCHANGED <<actor, st, store, seen0, recycled, pushed, last, api_state, nd>>

\* process_and_save_article on one article (global-markets main.py 29-93).
\* Without the GEMINI_API_KEY init_gemini raises, analyze_article_summary and
\* generate_llm_summary catch it, and the record is pushed with the analysis
\* "Error" and the article's own summary (tools.py 230-233, 290-293).
GmOutcome(art, test, key, use, analysis, summ, push) ==
    LET sentiment == IF test THEN "ok" ELSE IF ~key THEN "Error" ELSE analysis
        summary == IF use /\ (test \/ (key /\ summ = "ok")) THEN "llm" ELSE "rss"
    IN  IF ~push THEN Attempt(art.link, summary, sentiment, "push_failed")
        ELSE [Attempt(art.link, summary, sentiment, "ok") EXCEPT !.marked = FALSE]

\* the calls of one article outside test mode: the Google search when its keys
\* are set, the model once for the analysis and once more for the summary when
\* the key is there
GmCalls(test, key, grounding) ==
    IF test THEN {}
    ELSE (IF grounding THEN {"search"} ELSE {}) \cup (IF key THEN {"llm"} ELSE {})

\* the node ProcessAndSaveArticle and the edge that leaves it (main.py 29-105)
GmProcess ==
    /\ pc = "GmProcess"
    /\ IF processed_count >= Len(articles)
       THEN /\ pc' = "end"
            /\ UNCHANGED <<processed_count, pushed, last, exit, calls>>
       ELSE \E grounding \in BOOLEAN, analysis \in {"ok", "Error"}, summ \in {"ok", "Error"},
               push \in BOOLEAN :
              LET art == articles[processed_count + 1]
                  o == GmOutcome(art, test_mode, key_ok, use_summarization, analysis, summ, push)
              IN  /\ last' = o
                  /\ calls' = calls \cup GmCalls(test_mode, key_ok, grounding)
                  /\ pushed' = IF o.pushed THEN Append(pushed, art.link) ELSE pushed
                  /\ IF o.raised
                     THEN /\ pc' = "done"
                          /\ exit' = "error"
                          /\ UNCHANGED processed_count
                     ELSE /\ processed_count' = processed_count + 1
                          /\ pc' = IF processed_count + 1 < Len(articles)
                                   THEN "GmProcess" ELSE "end"
                          /\ UNCHANGED exit
    /\ UNCHANGED side
    /\ UNCHANGED <<actor, source, custom_url, max_articles, web, st, test_mode, key_ok,
                   use_summarization, store, seen0, articles, recycled, api_state, nd>>

\* the processing graph of one run under its recursion limit
LimitQuota == 1    \* largest maxArticles of such a run
MaxAvItems == 8    \* items in the feed of the Alpha Vantage answer

\* global-markets main.py 179: max_total_articles = config.maxArticles * 2 + 5
RecursionLimit(max) == max * 2 + 5

\* main from its input to ainvoke (global-markets main.py 112-184): the RSS
\* articles, at most maxArticles of them, and every item of the Alpha Vantage
\* answer, whose number nothing in the code bounds ("limit" is a parameter of
\* the request, tools.py 167-170, and the loop over data["feed"] takes all)
GraphInvoke ==
    /\ pc = "idle"
    /\ actor = "markets"
    /\ graph.pc = "idle"
    /\ \E src \in {"all", AvOnly}, max \in 0..LimitQuota, test \in BOOLEAN,
          av_key \in BOOLEAN, av_ok \in BOOLEAN, items \in 0..MaxAvItems :
          \E w \in WebOver(SelectSeq(SelectUrls(actor, src, ""), LAMBDA u : u \in PipeUrls),
                            PipeFeeds),
             us \in UrlOrders(actor, src, "") :
            LET rss_articles == IF src = AvOnly THEN <<>>
                                ELSE RunLoop(LoopInit(actor, src, w, us), w, max).articles
                av_articles == FetchAlphaVantageArticles(test, av_key, av_ok,
                                                         [k \in 1..items |-> 1])
                all_articles == rss_articles \o av_articles
            IN  graph' = [pc |-> IF all_articles = <<>> THEN "returned" ELSE "running",
                          max |-> max, rss |-> Len(rss_articles), av |-> Len(av_articles),
                          n |-> Len(all_articles),
                          recursion_limit |-> RecursionLimit(max),
                          step |-> 0, processed_count |-> 0]
    /\ UNCHANGED <<base, pick, earlier, auto, yp, cat>>

\* one step of the graph: the node ProcessAndSaveArticle on the next article and
\* the edge should_continue (main.py 29-105); a failed push_data raises
GraphStep ==
    /\ graph.pc = "running"
    /\ graph.step < graph.recursion_limit
    /\ \E push \in BOOLEAN :
          graph' = IF ~push THEN [graph EXCEPT !.pc = "error", !.step = @ + 1]
                   ELSE [graph EXCEPT !.step = @ + 1,
                                      !.processed_count = @ + 1,
                                      !.pc = IF graph.processed_count + 1 < graph.n
                                             THEN "running" ELSE "end"]
    /\ UNCHANGED <<base, pick, earlier, auto, yp, cat>>

\* the graph has taken recursion_limit steps and the edge still says "continue":
\* ainvoke raises GraphRecursionError (main.py 182-184)
GraphRecursionError ==
    /\ graph.pc = "running"
    /\ graph.step >= graph.recursion_limit
    /\ graph' = [graph EXCEPT !.pc = "recursion_error"]
    /\ UNCHANGED <<base, pick, earlier, auto, yp, cat>>

\* ------------------------------------------- newsdata-io-smart-news-aggregator
MaxPages == 2       \* pages the API serves for one query
MaxRequests == 1    \* runs start while the stored count is this close to 0 or to the limit

\* newsdata main.py 14 and 104
FREE_TIER_DAILY_LIMIT == 200
max_pages == 200
\* last_reset_date: 0 stands for "1970-01-01", 1 for the day of the latest reset
\* the stored counts from which the runs of the model start
StartCounts ==
    (0..MaxRequests) \cup ((FREE_TIER_DAILY_LIMIT - 1)..(FREE_TIER_DAILY_LIMIT + MaxRequests))

\* _get_safe_key: hashlib.sha256(url.encode('utf-8')).hexdigest()
Sha256(text) == <<"sha256", text>>
SafeKey(link) == Sha256(link)

\* what one request of fetch_json gives: (None, False), or the page's results
\* (a link BadLink is an article without link) and whether a nextPage token follows
PageAnswers(page) ==
    {[success |-> FALSE, results |-> <<>>, nextPage |-> FALSE]} \cup
    {[success |-> TRUE, results |-> r, nextPage |-> n] :
        r \in SeqsUpTo(Links \cup {BadLink}, PipeEntries),
        n \in {b \in BOOLEAN : b => page < MaxPages}}

\* main up to the page loop (newsdata main.py 69-105)
NdMain ==
    /\ pc = "idle"
    /\ actor = "newsdata"
    /\ api_state.requests_today \in StartCounts
    /\ \E max \in 0..PipeQuota, use \in BOOLEAN, paid \in BOOLEAN, key \in BOOLEAN,
          new_day \in {b \in BOOLEAN : api_state.last_reset_date = 0 => b} :
          LET fresh == IF new_day
                       THEN [requests_today |-> 0, last_reset_date |-> 1]
                       ELSE api_state
          IN  /\ max_articles' = max
              /\ key_ok' = key
              /\ nd' = [use_openai |-> use, enable_paid_tier |-> paid,
                        requests_today |-> fresh.requests_today,
                        last_reset_date |-> fresh.last_reset_date,
                        articles_fetched |-> 0, page |-> 1, next_page |-> FALSE,
                        new_articles |-> <<>>, idx |-> 1, sent_at |-> -1]
    /\ pc' = "page"
    /\ calls' = {"open_store"}
    /\ UNCHANGED side
    /\ UNCHANGED use_summarization
    /\ UNCHANGED <<actor, source, custom_url, web, st, test_mode, store, seen0, articles,
                   processed_count, recycled, pushed, last, exit, api_state>>

\* the check of the daily limit with > for >=: one request is sent at the limit
LimitReachedOffByOne(enable_paid_tier, requests_today) ==
    ~enable_paid_tier /\ requests_today > FREE_TIER_DAILY_LIMIT

\* newsdata main.py 113: not enable_paid_tier and requests_today >= FREE_TIER_DAILY_LIMIT
LimitReached(enable_paid_tier, requests_today) ==
    ~enable_paid_tier /\ requests_today >= FREE_TIER_DAILY_LIMIT

\* one turn of the page loop up to the article loop (newsdata main.py 108-146)
NdFetchPage ==
    /\ pc = "page"
    /\ IF \/ nd.page > max_pages
          \/ nd.articles_fetched >= max_articles
          \/ LimitReached(nd.enable_paid_tier, nd.requests_today)
       THEN pc' = "end" /\ UNCHANGED <<nd, api_state, calls>>
       ELSE \E ans \in PageAnswers(nd.page) :
              LET count == IF ans.success THEN nd.requests_today + 1 ELSE nd.requests_today
              IN  /\ api_state' = IF ans.success
                                   THEN [requests_today |-> count,
                                         last_reset_date |-> nd.last_reset_date]
                                   ELSE api_state
                  /\ nd' = [nd EXCEPT !.requests_today = count,
                                      !.new_articles = ans.results,
                                      !.next_page = ans.nextPage,
                                      !.idx = 1,
                                      !.sent_at = nd.requests_today]
                  /\ calls' = calls \cup {"newsdata"}
                  /\ pc' = IF ans.success /\ ans.results # <<>> THEN "article" ELSE "end"
    /\ UNCHANGED side
    /\ UNCHANGED use_summarization
    /\ UNCHANGED <<actor, source, custom_url, max_articles, web, st, test_mode, key_ok,
                   store, seen0, articles, processed_count, recycled, pushed, last, exit>>

\* summarize_with_openai (newsdata main.py 42-66, 166-168): None unless asked for,
\* the article has a description, the client exists and the call succeeds
NdSummary(use, key, description, call) ==
    IF use /\ description /\ key /\ call THEN "ok" ELSE "none"

\* the calls of one article: the store is asked about every article with a link,
\* the model about every new one that is to be summarised
NdCalls(link, kv, use, key, description) ==
    IF link = BadLink THEN {}
    ELSE {"get_value"}
         \cup (IF SafeKey(link) \notin kv /\ use /\ description /\ key THEN {"llm"} ELSE {})

\* one article of the page (newsdata main.py 153-181)
NdOutcome(link, kv, summary, push, setv) ==
    IF link = BadLink THEN Attempt(link, "nolink", "na", "na")
    ELSE IF SafeKey(link) \in kv THEN Attempt(link, "duplicate", "na", "na")
    ELSE Attempt(link, summary, "na", Storage(push, setv))

\* one turn of the article loop
NdArticle ==
    /\ pc = "article"
    /\ nd.idx <= Len(nd.new_articles)
    /\ nd.articles_fetched < max_articles
    /\ \E description \in BOOLEAN, call \in BOOLEAN, push \in BOOLEAN, setv \in BOOLEAN :
          LET link == nd.new_articles[nd.idx]
              o == NdOutcome(link, store, NdSummary(nd.use_openai, key_ok, description, call),
                             push, setv)
          IN  /\ last' = o
              /\ calls' = calls \cup NdCalls(link, store, nd.use_openai, key_ok, description)
              /\ pushed' = IF o.pushed THEN Append(pushed, link) ELSE pushed
              /\ store' = IF o.marked THEN SetValue(store, SafeKey(link)) ELSE store
              /\ nd' = [nd EXCEPT !.idx = @ + 1,
                                  !.articles_fetched = IF o.pushed THEN @ + 1 ELSE @]
              /\ IF o.raised
                 THEN pc' = "done" /\ exit' = "error"
                 ELSE UNCHANGED <<pc, exit>>
    /\ UNCHANGED side
    /\ UNCHANGED use_summarization
    /\ UNCHANGED <<actor, source, custom_url, max_articles, web, st, test_mode, key_ok,
                   seen0, articles, processed_count, recycled, api_state>>

\* the article loop is over: pagination handling (newsdata main.py 183-187)
NdNextPage ==
    /\ pc = "article"
    /\ nd.idx > Len(nd.new_articles) \/ nd.articles_fetched >= max_articles
    /\ IF nd.next_page
       THEN pc' = "page" /\ nd' = [nd EXCEPT !.page = @ + 1]
       ELSE pc' = "end" /\ UNCHANGED nd
    /\ UNCHANGED side
    /\ UNCHANGED use_summarization
    /\ UNCHANGED <<calls, actor, source, custom_url, max_articles, web, st, test_mode, key_ok,
                   store, seen0, articles, processed_count, recycled, pushed, last, exit,
                   api_state>>

\* ------------------------------------------------------------------ gdelt-news
MaxBatch == 2       \* articles of one GDELT answer

\* main up to the enrichment loop (gdelt main.py 147-176); an article whose url is
\* BadLink has no url DatasetRecord accepts
GdeltMain ==
    /\ pc = "idle"
    /\ actor = "gdelt"
    /\ \E test \in BOOLEAN, batch \in SeqsUpTo(Links \cup {BadLink}, MaxBatch) :
          /\ test_mode' = test
          /\ articles' = [k \in 1..Len(batch) |-> RSSFeed(batch[k], "gdelt")]
          /\ IF batch = <<>>
             THEN pc' = "done" /\ exit' = "ok"
             ELSE pc' = "enrich" /\ exit' = "none"
    /\ processed_count' = 0
    /\ calls' = {"gdelt"}
    /\ UNCHANGED side
    /\ UNCHANGED use_summarization
    /\ UNCHANGED <<actor, source, custom_url, max_articles, web, st, key_ok, store, seen0,
                   recycled, pushed, last, api_state, nd>>

\* one turn of the enrichment loop (gdelt main.py 179-245): without an overview the
\* record keeps the snippet and "N/A"; the record is validated, then pushed
GdeltOutcome(art, test, overview, analysis, push) ==
    LET summary == IF test \/ overview THEN "search" ELSE "snippet"
        sentiment == IF summary = "snippet" THEN "N/A" ELSE IF test THEN "ok" ELSE analysis
    IN  IF ~Parses(art.link) THEN Attempt(art.link, summary, sentiment, "invalid_url")
        ELSE IF ~push THEN Attempt(art.link, summary, sentiment, "push_failed")
        ELSE [Attempt(art.link, summary, sentiment, "ok") EXCEPT !.marked = FALSE]

\* the calls a turn is known to have made outside test mode: the search and the
\* model behind an overview, the model behind an analysis (gdelt tools.py 160-282)
GdeltCalls(test, overview, o) ==
    IF test THEN {}
    ELSE (IF overview THEN {"search", "llm"} ELSE {})
         \cup (IF o.sentiment \in {"ok", "Error"} THEN {"llm"} ELSE {})

\* the exception of a turn reaches main's handler, which fails the run
\* (gdelt main.py 249-251)
GdeltEnrich ==
    /\ pc = "enrich"
    /\ processed_count < Len(articles)
    /\ \E overview \in BOOLEAN, analysis \in AnalysisKinds, push \in BOOLEAN :
          LET art == articles[processed_count + 1]
              o == GdeltOutcome(art, test_mode, overview, analysis, push)
          IN  /\ last' = o
              /\ calls' = calls \cup GdeltCalls(test_mode, overview, o)
              /\ pushed' = IF o.pushed THEN Append(pushed, art.link) ELSE pushed
              /\ processed_count' = processed_count + 1
              /\ IF o.raised
                 THEN pc' = "done" /\ exit' = "failed"
                 ELSE /\ pc' = IF processed_count + 1 < Len(articles) THEN "enrich" ELSE "end"
                      /\ UNCHANGED exit
    /\ UNCHANGED side
    /\ UNCHANGED use_summarization
    /\ UNCHANGED <<actor, source, custom_url, max_articles, web, st, test_mode, key_ok,
                   store, seen0, articles, recycled, api_state, nd>>

\* the graph reached __end__: main logs the completion and returns
Finish ==
    /\ pc = "end"
    /\ pc' = "done"
    /\ exit' = "ok"
    /\ UNCHANGED side
    /\ UNCHANGED use_summarization
    /\ UNCHANGED <<calls, actor, source, custom_url, max_articles, web, st, test_mode, key_ok,
                   store, seen0, articles, processed_count, recycled, pushed, last,
                   api_state, nd>>

\* the process is gone: what the next run finds is the stores and nothing else
Gone ==
    /\ pc = "done"
    /\ pc' = "idle"
    /\ source' = "all"
    /\ custom_url' = ""
    /\ max_articles' = 0
    /\ web' = [u \in AllUrls |-> DeadFeed]
    /\ test_mode' = FALSE
    /\ key_ok' = TRUE
    /\ seen0' = store
    /\ articles' = <<>>
    /\ processed_count' = 0
    /\ recycled' = FALSE
    /\ pushed' = <<>>
    /\ last' = NoAttempt
    /\ exit' = "none"
    /\ nd' = NoLocals
    /\ calls' = {}
    /\ use_summarization' = FALSE
    /\ UNCHANGED <<actor, st, store, api_state>>

ProcessExit == Gone /\ UNCHANGED side

\* the same with the links of the records the run pushed kept for the runs
\* that follow
RunOver ==
    /\ Gone
    /\ earlier' = earlier \cup Range(pushed)
    /\ UNCHANGED <<runs, dedup, search, fan, pick, graph, auto, yp, cat>>

Actors == RssActors \cup {"newsdata", "gdelt", "markets"}

\* before the first run the stores are empty; the usage state of newsdata is the
\* default one or the one a day of requests left behind
Init ==
    /\ actor \in Actors
    /\ source = "all"
    /\ custom_url = ""
    /\ max_articles = 0
    /\ web = [u \in AllUrls |-> DeadFeed]
    /\ pc = "idle"
    /\ st = NoLoop
    /\ test_mode = FALSE
    /\ key_ok = TRUE
    /\ store = {}
    /\ seen0 = {}
    /\ articles = <<>>
    /\ processed_count = 0
    /\ recycled = FALSE
    /\ pushed = <<>>
    /\ last = NoAttempt
    /\ exit = "none"
    /\ api_state \in {NoState} \cup
          {[requests_today |-> n, last_reset_date |-> 1] :
              n \in {FREE_TIER_DAILY_LIMIT - 1, FREE_TIER_DAILY_LIMIT}}
    /\ actor # "newsdata" => api_state = NoState
    /\ nd = NoLocals
    /\ calls = {}
    /\ use_summarization = FALSE
    /\ SideInit

Next ==
    \/ Main \/ RssFetcher \/ ProcessAndSaveArticle
    \/ NdMain \/ NdFetchPage \/ NdArticle \/ NdNextPage
    \/ GdeltMain \/ GdeltEnrich
    \/ GmMain \/ GmProcess
    \/ Finish \/ ProcessExit

Spec == Init /\ [][Next]_vars

\* one run of an actor with a processing loop, from a fresh store.  The graph
\* executor runs the node the edge names, the for loop takes its next turn, and
\* main returns once the graph or the loop has ended.
OneRunInit == Init /\ actor \in RssActors \cup {"gdelt"}

OneRunNext ==
    \/ Main \/ RssFetcher \/ ProcessAndSaveArticle
    \/ GdeltMain \/ GdeltEnrich
    \/ Finish

OneRunSpec ==
    /\ OneRunInit /\ [][OneRunNext]_vars
    /\ WF_vars(ProcessAndSaveArticle) /\ WF_vars(GdeltEnrich) /\ WF_vars(Finish)

\* ------------------------------------------------ overlapping runs, newsdata
\* Two runs of the aggregator started on the same store of processed links.
\* Each goes through the articles of its page (newsdata main.py 149-181); every
\* await of the loop body is a point where the other run may take its steps:
\* get_value, push_data (to the run's own dataset), set_value.
RaceArticles == 2     \* articles on the page of a run
RunIds == {"r1", "r2"}

RunAt(arts) == [pc |-> "check", new_articles |-> arts, idx |-> 1, pushed |-> <<>>]

\* the loop goes to its next article, or ends
NextArticle(rn) ==
    [rn EXCEPT !.idx = @ + 1,
               !.pc = IF rn.idx + 1 > Len(rn.new_articles) THEN "end" ELSE "check"]

\* the check of a store that admits one run at a time: a run waits while
\* another is between its check and its mark
RaceCheckLocked(r) ==
    /\ runs # NoRuns /\ runs[r].pc = "check"
    /\ \A q \in RunIds \ {r} : runs[q].pc \notin {"push", "mark"}
    /\ LET link == runs[r].new_articles[runs[r].idx] IN
       runs' = [runs EXCEPT ![r] = IF SafeKey(link) \in store THEN NextArticle(@)
                                   ELSE [@ EXCEPT !.pc = "push"]]
    /\ UNCHANGED <<actor, source, custom_url, max_articles, web, pc, st, run, dedup, search, fan, more>>

\* main.py 157-161: if await processed_links_store.get_value(key=safe_key): continue
RaceCheck(r) ==
    /\ runs # NoRuns /\ runs[r].pc = "check"
    /\ LET link == runs[r].new_articles[runs[r].idx] IN
       runs' = [runs EXCEPT ![r] = IF SafeKey(link) \in store THEN NextArticle(@)
                                   ELSE [@ EXCEPT !.pc = "push"]]
    /\ UNCHANGED <<actor, source, custom_url, max_articles, web, pc, st, run, dedup, search, fan, more>>

\* main.py 170-178: await Actor.push_data({...})
RacePush(r) ==
    /\ runs # NoRuns /\ runs[r].pc = "push"
    /\ runs' = [runs EXCEPT ![r] = [@ EXCEPT !.pushed = Append(@, runs[r].new_articles[runs[r].idx]),
                                             !.pc = "mark"]]
    /\ UNCHANGED <<actor, source, custom_url, max_articles, web, pc, st, run, dedup, search, fan, more>>

\* main.py 180-181: await processed_links_store.set_value(key=safe_key, value=True)
RaceMark(r) ==
    /\ runs # NoRuns /\ runs[r].pc = "mark"
    /\ store' = SetValue(store, SafeKey(runs[r].new_articles[runs[r].idx]))
    /\ runs' = [runs EXCEPT ![r] = NextArticle(@)]
    /\ UNCHANGED <<actor, source, custom_url, max_articles, web, pc, st, test_mode, key_ok,
                   seen0, articles, processed_count, recycled, pushed, last, exit,
                   api_state, nd, calls, use_summarization, dedup, search, fan, more>>

RaceStep(r) == RaceCheck(r) \/ RacePush(r) \/ RaceMark(r)

RaceInit ==
    /\ actor = "newsdata"
    /\ source = "all" /\ custom_url = "" /\ max_articles = 0
    /\ web = [u \in AllUrls |-> DeadFeed]
    /\ pc = "idle" /\ st = NoLoop
    /\ test_mode = FALSE /\ key_ok = TRUE
    /\ store \in {{}, {SafeKey(1)}}
    /\ seen0 = store
    /\ articles = <<>> /\ processed_count = 0 /\ recycled = FALSE
    /\ pushed = <<>> /\ last = NoAttempt /\ exit = "none"
    /\ api_state = NoState /\ nd = NoLocals
    /\ calls = {} /\ use_summarization = FALSE
    /\ dedup = NoEntry /\ search = NoSearch /\ fan = NoFan /\ MoreInit
    /\ runs \in [RunIds -> {RunAt(arts) : arts \in SeqsUpTo(Links, RaceArticles) \ {<<>>}}]

RaceNext == \E r \in RunIds : RaceCheck(r) \/ RacePush(r) \/ RaceMark(r)

RaceSpec == RaceInit /\ [][RaceNext]_vars

\* ------------------------------------------- gdelt: fetch_summary_from_google
SearchCalls == 3      \* calls of the function in one run
MAX_RETRIES == 3      \* gdelt tools.py 184

\* what the search API answers to one request: a status, a failure of the
\* connection, a result without items, a result with items
Answers == {"403", "500", "error", "empty", "items"}

\* every failure is tried again, the 403 and the others alike
AfterAnswerRetryAll(s, answer, llm) ==
    LET sent == [s EXCEPT !.statuses = Append(@, answer)] IN
    IF answer \in {"403", "500", "error"}
    THEN IF s.attempt < MAX_RETRIES - 1
         THEN [sent EXCEPT !.waits = Append(@, 2 ^ (s.attempt + 1)), !.attempt = @ + 1]
         ELSE [sent EXCEPT !.pc = "done", !.result = ""]
    ELSE IF answer = "empty" THEN [sent EXCEPT !.pc = "done", !.result = ""]
    ELSE [sent EXCEPT !.pc = "done", !.result = IF llm THEN "summary" ELSE ""]

\* one turn of `for attempt in range(MAX_RETRIES)` (gdelt tools.py 186-224):
\* the request is sent and answered.  llm: the summary of the snippets succeeds
AfterAnswer(s, answer, llm) ==
    LET sent == [s EXCEPT !.statuses = Append(@, answer)] IN
    IF answer = "403"
    THEN IF s.attempt < MAX_RETRIES - 1
         THEN [sent EXCEPT !.waits = Append(@, 2 ^ (s.attempt + 1)), !.attempt = @ + 1]
         ELSE [sent EXCEPT !.pc = "done", !.result = ""]
    ELSE IF answer \in {"500", "error", "empty"} THEN [sent EXCEPT !.pc = "done", !.result = ""]
    ELSE [sent EXCEPT !.pc = "done", !.result = IF llm THEN "summary" ELSE ""]

\* gdelt tools.py 165-184: canned in test mode, "" without the Google keys
SearchStart ==
    /\ search.pc = "idle" /\ Len(search.log) < SearchCalls
    /\ \E test \in BOOLEAN, keys \in BOOLEAN :
          search' = IF test THEN [search EXCEPT !.pc = "done", !.result = "summary"]
                    ELSE IF ~keys THEN [search EXCEPT !.pc = "done", !.result = ""]
                    ELSE [search EXCEPT !.pc = "request"]
    /\ UNCHANGED <<actor, source, custom_url, max_articles, web, pc, st, run, runs, dedup, fan, more>>

SearchRequest ==
    /\ search.pc = "request"
    /\ IF search.attempt >= MAX_RETRIES
       THEN search' = [search EXCEPT !.pc = "done", !.result = ""]     \* tools.py 226
       ELSE \E answer \in Answers, llm \in BOOLEAN : search' = AfterAnswer(search, answer, llm)
    /\ UNCHANGED <<actor, source, custom_url, max_articles, web, pc, st, run, runs, dedup, fan, more>>

\* the function returns; its caller keeps the result (gdelt main.py 219)
SearchReturn ==
    /\ search.pc = "done"
    /\ search' = [NoSearch EXCEPT !.log = Append(search.log, search.result)]
    /\ UNCHANGED <<actor, source, custom_url, max_articles, web, pc, st, run, runs, dedup, fan, more>>

SearchInit == Init /\ actor = "gdelt"

SearchNext == SearchStart \/ SearchRequest \/ SearchReturn

SearchSpec == SearchInit /\ [][SearchNext]_vars

\* ------------------------- fan-out: sentiment-compass, ai-content-opportunity-scout
MaxTopics == 3        \* topics read from the source dataset
FanActors == {"compass", "scout"}
Pending == [of |-> 0, empty |-> TRUE, pending |-> TRUE]

\* what a task returns for a topic: the analysis of that topic, or nothing (the
\* topic has no articles, or the call failed)
Analysis(topic, empty) == [of |-> topic, empty |-> empty, pending |-> FALSE]

\* the results in the order in which the tasks completed
AsCompleted(results, order) == [k \in 1..Len(results) |-> results[order[k]]]

\* await asyncio.gather(*tasks): the list of the results in the order of the
\* tasks, whenever each of them completed
Gather(results, order) == [k \in 1..Len(results) |-> results[k]]

\* sentiment-compass main.py 112-130: zip with the topics, an empty analysis is
\* skipped; ai-content-opportunity-scout main.py 162-176: zip, every pair merged
RECURSIVE Zip(_, _, _)
Zip(a, topics, analysis_results) ==
    IF topics = <<>> \/ analysis_results = <<>> THEN <<>>
    ELSE LET rest == Zip(a, Tail(topics), Tail(analysis_results)) IN
         IF a = "compass" /\ Head(analysis_results).empty THEN rest
         ELSE <<[cluster_topic |-> Head(topics), analysis_of |-> Head(analysis_results).of]>> \o rest

\* sentiment-compass main.py 60-109 (the key, then the topics of the source
\* dataset); ai-content-opportunity-scout main.py 120-154
FanStart ==
    /\ fan.pc = "idle"
    /\ \E n \in 0..MaxTopics, key \in BOOLEAN :
          fan' = IF actor = "compass" /\ ~key THEN [fan EXCEPT !.pc = "failed"]
                 ELSE IF actor = "scout" /\ n = 0 THEN [fan EXCEPT !.pc = "merged"]
                 ELSE [fan EXCEPT !.pc = "gather",
                                  !.topics = [k \in 1..n |-> k],
                                  !.results = [k \in 1..n |-> Pending]]
    /\ UNCHANGED <<actor, source, custom_url, max_articles, web, pc, st, run, runs, dedup, search, more>>

\* one of the tasks completes
FanComplete ==
    /\ fan.pc = "gather"
    /\ \E i \in 1..Len(fan.topics), empty \in BOOLEAN :
          /\ fan.results[i].pending
          /\ actor = "scout" => ~empty
          /\ fan' = [fan EXCEPT !.results[i] = Analysis(fan.topics[i], empty),
                                !.order = Append(@, i)]
    /\ UNCHANGED <<actor, source, custom_url, max_articles, web, pc, st, run, runs, dedup, search, more>>

\* gather returns once every task has completed; the merge and the push
FanMerge ==
    /\ fan.pc = "gather"
    /\ \A i \in 1..Len(fan.topics) : ~fan.results[i].pending
    /\ fan' = [fan EXCEPT !.pc = "merged",
                          !.output = Zip(actor, fan.topics, Gather(fan.results, fan.order))]
    /\ UNCHANGED <<actor, source, custom_url, max_articles, web, pc, st, run, runs, dedup, search, more>>

FanInit ==
    /\ actor \in FanActors
    /\ source = "all" /\ custom_url = "" /\ max_articles = 0
    /\ web = [u \in AllUrls |-> DeadFeed]
    /\ pc = "idle" /\ st = NoLoop
    /\ RunInit
    /\ SideInit

FanNext == FanStart \/ FanComplete \/ FanMerge

FanSpec == FanInit /\ [][FanNext]_vars

\* --------------------------------------------------------- ai-content-autopilot
\* a or b of Python on dataset ids
Or(a, b) == IF a # None THEN a ELSE b

\* the input of the sentiment stage with the two ids the other way round
SentimentInputAggregatorFirst(keyword_dataset_id, aggregator_dataset_id) ==
    Or(aggregator_dataset_id, keyword_dataset_id)

\* main.py 139: sentiment_input_dataset_id = keyword_dataset_id or aggregator_dataset_id
SentimentInput(keyword_dataset_id, aggregator_dataset_id) ==
    Or(keyword_dataset_id, aggregator_dataset_id)

\* main.py 160: content_gen_input_dataset_id = sentiment_dataset_id or sentiment_input_dataset_id
ContentGenInput(sentiment_dataset_id, sentiment_input_dataset_id) ==
    Or(sentiment_dataset_id, sentiment_input_dataset_id)

\* Actor.call of a stage: the called actor is given `input`; it comes back with
\* a default dataset (id) or without one, and then main fails (main.py 96-105)
Called(a, stage, input, field, id, produced) ==
    LET b == [a EXCEPT !.ran = Append(@, [stage |-> stage, input |-> input])]
    IN  IF ~produced THEN [b EXCEPT !.pc = "failed"]
        ELSE [b EXCEPT ![field] = id, !.final_datasets = @ \cup {stage}]

\* main.py 51-76: the input is read and validated
AutoStart ==
    /\ auto.pc = "idle"
    /\ \E key \in BOOLEAN, p \in {"none", "invalid", "valid"},
          ag \in BOOLEAN, kw \in BOOLEAN, se \in BOOLEAN, id \in BOOLEAN :
          auto' = IF p = "none" \/ ~key THEN [auto EXCEPT !.pc = "failed"]
                  ELSE [auto EXCEPT !.pc = "stage1", !.pipelines = p,
                                    !.run_aggregator = ag, !.run_keyword_analysis = kw,
                                    !.run_sentiment_analysis = se, !.run_idea_generation = id]
    /\ UNCHANGED <<base, pick, graph, earlier, yp, cat>>

\* main.py 78-109: stage 1
AutoAggregator ==
    /\ auto.pc = "stage1"
    /\ \E produced \in BOOLEAN :
          auto' = IF ~auto.run_aggregator THEN [auto EXCEPT !.pc = "stage2"]
                  ELSE IF auto.pipelines = "invalid" THEN [auto EXCEPT !.pc = "failed"]
                  ELSE LET a == Called(auto, "aggregator", "news_sources",
                                       "aggregator_dataset_id", "d1", produced)
                       IN  IF a.pc = "failed" THEN a ELSE [a EXCEPT !.pc = "stage2"]
    /\ UNCHANGED <<base, pick, graph, earlier, yp, cat>>

\* main.py 111-131: stage 2
AutoKeyword ==
    /\ auto.pc = "stage2"
    /\ \E produced \in BOOLEAN :
          auto' = IF ~auto.run_keyword_analysis \/ auto.aggregator_dataset_id = None
                  THEN [auto EXCEPT !.pc = "stage3"]
                  ELSE LET a == Called(auto, "keyword_opportunity", auto.aggregator_dataset_id,
                                       "keyword_dataset_id", "d2", produced)
                       IN  IF a.pc = "failed" THEN a ELSE [a EXCEPT !.pc = "stage3"]
    /\ UNCHANGED <<base, pick, graph, earlier, yp, cat>>

\* main.py 139-158: stage 3
AutoSentiment ==
    /\ auto.pc = "stage3"
    /\ \E produced \in BOOLEAN :
          LET sentiment_input_dataset_id ==
                  SentimentInput(auto.keyword_dataset_id, auto.aggregator_dataset_id)
          IN  auto' = IF ~auto.run_sentiment_analysis \/ sentiment_input_dataset_id = None
                      THEN [auto EXCEPT !.pc = "stage4"]
                      ELSE LET a == Called(auto, "sentiment_intel", sentiment_input_dataset_id,
                                           "sentiment_dataset_id", "d3", produced)
                           IN  IF a.pc = "failed" THEN a ELSE [a EXCEPT !.pc = "stage4"]
    /\ UNCHANGED <<base, pick, graph, earlier, yp, cat>>

\* main.py 160-197: stage 4.  The items of the input dataset that have a topic
\* and articles are pushed to the dataset named "cleaned-input-for-content-gen",
\* and that dataset is what the generator is given
AutoIdeas ==
    /\ auto.pc = "stage4"
    /\ \E produced \in BOOLEAN, cleaned_items \in BOOLEAN :
          LET sentiment_input_dataset_id ==
                  SentimentInput(auto.keyword_dataset_id, auto.aggregator_dataset_id)
              content_gen_input_dataset_id ==
                  ContentGenInput(auto.sentiment_dataset_id, sentiment_input_dataset_id)
          IN  auto' = IF ~auto.run_idea_generation \/ content_gen_input_dataset_id = None
                         \/ ~cleaned_items
                      THEN [auto EXCEPT !.pc = "report"]
                      ELSE LET a == Called([auto EXCEPT !.cleaned_from = content_gen_input_dataset_id],
                                           "content_idea_generator",
                                           "cleaned-input-for-content-gen",
                                           "content_dataset_id", "d4", produced)
                           IN  IF a.pc = "failed" THEN a ELSE [a EXCEPT !.pc = "report"]
    /\ UNCHANGED <<base, pick, graph, earlier, yp, cat>>

\* main.py 199-227: the summary report is pushed
AutoReport ==
    /\ auto.pc = "report"
    /\ auto' = [auto EXCEPT !.pc = "done"]
    /\ UNCHANGED <<base, pick, graph, earlier, yp, cat>>

AutoInit ==
    /\ actor = "autopilot"
    /\ source = "all" /\ custom_url = "" /\ max_articles = 0
    /\ web = [u \in AllUrls |-> DeadFeed]
    /\ pc = "idle" /\ st = NoLoop
    /\ RunInit
    /\ SideInit

AutoNext ==
    \/ AutoStart \/ AutoAggregator \/ AutoKeyword \/ AutoSentiment \/ AutoIdeas
    \/ AutoReport

AutoSpec == AutoInit /\ [][AutoNext]_vars

\* ------------------------------------------------------- Yellow Pages Scraper
MaxBusinesses == 2    \* business pages that exist
MaxPerPage == 2       \* business links on one page of search results
MaxTotal == 2         \* largest maxTotalBusinesses
Businesses == 1..MaxBusinesses
\* generate_yp_search_urls: one url per query and location, in order
SearchUrls == <<"s1", "s2">>
\* what a search url shows: the results container never appears ("blocked"), or
\* the clean urls of its a.business-name elements in page order
Blocked == <<0>>
SearchResults == {Blocked} \cup SeqsUpTo(Businesses, MaxPerPage)

\* scraper_logic.py 123-136: the loop over the elements of one page
RECURSIVE GatherPage(_, _, _, _)
GatherPage(hrefs, all_pdp_links, processed_set, max_total) ==
    IF hrefs = <<>> THEN [all_pdp_links |-> all_pdp_links, processed_set |-> processed_set]
    ELSE LET clean_url == Head(hrefs)
             new == clean_url \notin processed_set
             links == IF new THEN Append(all_pdp_links, clean_url) ELSE all_pdp_links
             set == IF new THEN processed_set \cup {clean_url} ELSE processed_set
         IN  IF Len(links) >= max_total
             THEN [all_pdp_links |-> links, processed_set |-> set]        \* break
             ELSE GatherPage(Tail(hrefs), links, set, max_total)

\* scraper_logic.py 100-136: the loop over the search urls
RECURSIVE GatherAll(_, _, _, _, _)
GatherAll(search_urls, shown, all_pdp_links, processed_set, max_total) ==
    IF search_urls = <<>> \/ Len(all_pdp_links) >= max_total THEN all_pdp_links
    ELSE LET page == shown[Head(search_urls)] IN
         IF page = Blocked
         THEN GatherAll(Tail(search_urls), shown, all_pdp_links, processed_set, max_total)
         ELSE LET g == GatherPage(page, all_pdp_links, processed_set, max_total)
              IN  GatherAll(Tail(search_urls), shown, g.all_pdp_links, g.processed_set,
                            max_total)

\* fetch_business_links (scraper_logic.py 66-144): any exception gives []
FetchBusinessLinks(shown, max_total, processed_links, crashed) ==
    IF crashed THEN <<>>
    ELSE GatherAll(SearchUrls, shown, <<>>, processed_links, max_total)

\* run up to the gathering (scraper_logic.py 373-379): the cache is loaded, or
\* [] is taken when it cannot be read (30-42)
YpLoad ==
    /\ yp.pc = "idle"
    /\ \E max \in 0..MaxTotal, loaded \in BOOLEAN :
          yp' = [yp EXCEPT !.pc = "gather", !.max_total = max,
                           !.cache0 = yp.cache,
                           !.processed_links = IF loaded THEN yp.cache ELSE {},
                           !.faults = IF loaded THEN @ ELSE @ \cup {"load"},
                           !.before = @ \cup Range(yp.attempted),
                           !.attempted = <<>>, !.crawled_urls = <<>>,
                           !.source_links = <<>>, !.i = 1]
    /\ UNCHANGED <<base, pick, graph, earlier, auto, cat>>

\* scraper_logic.py 381-402: step 1; without links the run ends here
YpGather ==
    /\ yp.pc = "gather"
    /\ \E shown \in [Range(SearchUrls) -> SearchResults], crashed \in BOOLEAN :
          LET source_links == FetchBusinessLinks(shown, yp.max_total, yp.processed_links,
                                                 crashed)
          IN  yp' = [yp EXCEPT !.source_links = source_links,
                               !.pc = IF source_links = <<>> THEN "done" ELSE "loop"]
    /\ UNCHANGED <<base, pick, graph, earlier, auto, cat>>

\* scraper_logic.py 408-435: one turn of the loop.  _run_selector_path is
\* awaited before the link is appended to crawled_urls; it returns the data or
\* an error record, or it raises (BeautifulSoup(...) at 278 and browser.close()
\* at 237-239 are outside its try blocks).  Then push_data, which may raise or
\* report the spending limit.
YpScrape ==
    /\ yp.pc = "loop"
    /\ \E scraped \in {"data", "raised"}, push \in {"ok", "limit", "raised"} :
          LET link == yp.source_links[yp.i]
              tried == [yp EXCEPT !.attempted = Append(@, link)]
              kept == [tried EXCEPT !.crawled_urls = Append(@, link)]
          IN  yp' = IF scraped = "raised"
                    THEN [tried EXCEPT !.pc = "finally", !.faults = @ \cup {"scrape"}]
                    ELSE IF push = "raised"
                    THEN [kept EXCEPT !.pc = "finally", !.faults = @ \cup {"push"}]
                    ELSE IF push = "limit" \/ yp.i + 1 > Len(yp.source_links)
                    THEN [kept EXCEPT !.pc = "finally"]
                    ELSE [kept EXCEPT !.i = @ + 1]
    /\ UNCHANGED <<base, pick, graph, earlier, auto, cat>>

\* scraper_logic.py 437-441, 43-53: the finally block saves the cache, unless
\* the file cannot be written
YpSave ==
    /\ yp.pc = "finally"
    /\ \E saved \in BOOLEAN :
          yp' = [yp EXCEPT !.pc = "done",
                           !.cache = IF saved THEN yp.processed_links \cup Range(yp.crawled_urls)
                                     ELSE @,
                           !.faults = IF saved THEN @ ELSE @ \cup {"save"}]
    /\ UNCHANGED <<base, pick, graph, earlier, auto, cat>>

\* the run is over; the next one may begin
YpExit ==
    /\ yp.pc = "done"
    /\ yp' = [yp EXCEPT !.pc = "idle"]
    /\ UNCHANGED <<base, pick, graph, earlier, auto, cat>>

YpInit ==
    /\ actor = "yellowpages"
    /\ source = "all" /\ custom_url = "" /\ max_articles = 0
    /\ web = [u \in AllUrls |-> DeadFeed]
    /\ pc = "idle" /\ st = NoLoop
    /\ RunInit
    /\ SideInit

YpNext == YpLoad \/ YpGather \/ YpScrape \/ YpSave \/ YpExit

YpSpec == YpInit /\ [][YpNext]_vars

\* ------------------------------------------------ visita category correction
MaxRows == 3          \* rows of the input file; record_id is the row number
Passes == 5           \* for i in range(1, 6)
RecordIds == 1..MaxRows
VALID_TYPES == {"Businesses & Services", "Community Spaces", "Wards", "Municipalities"}
NaN == "NaN"
\* a 'Listing Type(s)' cell: not a string (empty), or the valid types its text
\* contains
NotAString == {"nan"}
ListingTypes == {NotAString, {}, {"Wards", "Businesses & Services"}, {"Community Spaces"}}

\* clean_listing_type (process_categories.py 218-237)
clean_listing_type(type_string) ==
    IF type_string = NotAString THEN NaN
    ELSE IF "Municipalities" \in type_string THEN "Municipalities"
    ELSE IF "Wards" \in type_string THEN "Wards"
    ELSE IF "Community Spaces" \in type_string THEN "Community Spaces"
    ELSE IF "Businesses & Services" \in type_string THEN "Businesses & Services"
    ELSE NaN

\* process_categories.py 279-296: the rows that were unclassified when the pass
\* began, in row order; a row takes the type its parent has by then
RECURSIVE PassRows(_, _, _, _)
PassRows(unclassified_indices, id_to_type_map, id_to_parent_map, changes_made) ==
    IF unclassified_indices = <<>>
    THEN [id_to_type_map |-> id_to_type_map, changes_made |-> changes_made]
    ELSE LET idx == Head(unclassified_indices)
             parent_id == id_to_parent_map[idx]
             parent_type == IF parent_id \in DOMAIN id_to_type_map
                            THEN id_to_type_map[parent_id] ELSE NaN
         IN  IF parent_id # 0 /\ parent_type # NaN /\ parent_type \in VALID_TYPES
             THEN PassRows(Tail(unclassified_indices),
                           [id_to_type_map EXCEPT ![idx] = parent_type],
                           id_to_parent_map, changes_made + 1)
             ELSE PassRows(Tail(unclassified_indices), id_to_type_map,
                           id_to_parent_map, changes_made)

\* the rows whose type is NaN, in row order
RECURSIVE Unclassified(_, _)
Unclassified(types, from) ==
    IF from > Len(types) THEN <<>>
    ELSE (IF types[from] = NaN THEN <<from>> ELSE <<>>) \o Unclassified(types, from + 1)

\* the ancestor of row r that is k levels up (0: there is none)
RECURSIVE Ancestor(_, _, _)
Ancestor(parents, r, k) ==
    IF k = 0 \/ r = 0 THEN r ELSE Ancestor(parents, parents[r], k - 1)

\* the categories of the file form a forest: following parents ends at a
\* top-level category
IsForest(parents) ==
    \A r \in DOMAIN parents : Ancestor(parents, r, Len(parents)) = 0

\* main down to the propagation loop (process_categories.py 364-381, 193-216,
\* 239-260): the file is loaded, parents become ids (0: none or unknown name),
\* the types are cleaned; the rows are in any order, a child may come before
\* its parent
CatMain ==
    /\ cat.pc = "idle"
    /\ \E n \in 1..MaxRows :
       \E parents \in {p \in [1..n -> 0..n] : IsForest(p)}, types \in [1..n -> ListingTypes] :
          LET cleaned == [r \in 1..n |-> clean_listing_type(types[r])]
          IN  cat' = [pc |-> "pass", parent_id_corrected |-> parents,
                      type_corrected |-> cleaned, id_to_type_map |-> cleaned, i |-> 1]
    /\ UNCHANGED <<base, pick, graph, earlier, auto, yp>>

\* process_categories.py 265-302: one pass of the loop
CatPass ==
    /\ cat.pc = "pass"
    /\ LET unclassified_indices == Unclassified(cat.type_corrected, 1)
           p == PassRows(unclassified_indices, cat.id_to_type_map,
                         cat.parent_id_corrected, 0)
       IN  cat' = IF unclassified_indices = <<>>
                  THEN [cat EXCEPT !.pc = "propagated"]               \* break
                  ELSE [cat EXCEPT !.type_corrected = p.id_to_type_map,
                                   !.id_to_type_map = p.id_to_type_map,
                                   !.pc = IF p.changes_made = 0 \/ cat.i = Passes
                                          THEN "propagated" ELSE "pass",
                                   !.i = IF p.changes_made = 0 \/ cat.i = Passes
                                         THEN @ ELSE @ + 1]
    /\ UNCHANGED <<base, pick, graph, earlier, auto, yp>>

\* handle_unclassified_toplevel (process_categories.py 307-340): every row that
\* is still unclassified gets the type classify_with_ai returns for it
CatToplevel ==
    /\ cat.pc = "propagated"
    /\ \E ai \in [DOMAIN cat.type_corrected -> {"Businesses & Services", "Community Spaces"}] :
          cat' = [cat EXCEPT !.pc = "done",
                             !.type_corrected = [r \in DOMAIN @ |->
                                                   IF @[r] = NaN THEN ai[r] ELSE @[r]]]
    /\ UNCHANGED <<base, pick, graph, earlier, auto, yp>>

\* the script ends
CatExit ==
    /\ cat.pc = "done"
    /\ cat' = NoCat
    /\ UNCHANGED <<base, pick, graph, earlier, auto, yp>>

CatInit ==
    /\ actor = "categories"
    /\ source = "all" /\ custom_url = "" /\ max_articles = 0
    /\ web = [u \in AllUrls |-> DeadFeed]
    /\ pc = "idle" /\ st = NoLoop
    /\ RunInit
    /\ SideInit

CatNext == CatMain \/ CatPass \/ CatToplevel \/ CatExit

CatSpec == CatInit /\ [][CatNext]_vars

\* --------------------------------------------------- the key of a link text
\* The link of an entry as text: one address written with or without blanks
\* around it, with its host in capitals or not, with its path in capitals or not.
LinkTexts ==
    [space : BOOLEAN, host_upper : BOOLEAN, path_upper : BOOLEAN, none : {FALSE}]

\* str.strip() and str.lower(): neither is called on a link anywhere in the actors
Trim(t) == [t EXCEPT !.space = FALSE]
Lower(t) == [t EXCEPT !.host_upper = FALSE, !.path_upper = FALSE]

\* RSSFeed.link is an HttpUrl (health-fitness models.py 5-10): str(link) is the
\* text the URL parser gives back, blanks around it removed and the host in
\* lower case, the path as it was written
HttpUrlStr(t) == [t EXCEPT !.space = FALSE, !.host_upper = FALSE]

\* the key with the link lowered and trimmed before it is hashed
KeyOfTextNormalized(a, t) ==
    IF a = "newsdata" THEN SafeKey(Lower(Trim(t))) ELSE UrlKey(Lower(Trim(t)))

\* the key under which an actor looks a link up and marks it: newsdata hashes
\* the link as the API gave it (main.py 24-26, 153-158), the RSS actors hash
\* str(article.link) (health-fitness main.py 44, 126)
KeyOfText(a, t) ==
    IF a = "newsdata" THEN SafeKey(t) ELSE UrlKey(HttpUrlStr(t))

\* an entry is looked up and, when it is new and its processing succeeds,
\* marked (newsdata main.py 153-181; health-fitness main.py 43-47, 123-127)
KeyEntry ==
    /\ pc = "idle"
    /\ \E t \in LinkTexts, ok \in BOOLEAN :
          LET key == KeyOfText(actor, t)
              is_new == key \notin store
              mark == is_new /\ ok
          IN  /\ store' = IF mark THEN SetValue(store, key) ELSE store
              /\ dedup' = [text |-> t, is_new |-> is_new,
                           marked |-> (IF dedup.is_new /\ KeyOfText(actor, dedup.text) \in store
                                       THEN dedup.marked \cup {dedup.text} ELSE dedup.marked)]
    /\ UNCHANGED <<actor, source, custom_url, max_articles, web, pc, st, test_mode, key_ok,
                   seen0, articles, processed_count, recycled, pushed, last, exit,
                   api_state, nd, calls, use_summarization, runs, search, fan, more>>

PickInit == Init /\ actor = "health"

PickSpec == PickInit /\ [][SummarizeArticle]_vars

LimitInit == Init /\ actor = "markets"

LimitNext == GraphInvoke \/ GraphStep \/ GraphRecursionError

LimitSpec == LimitInit /\ [][LimitNext]_vars

\* the runs of the NewsData aggregator that leave the paid tier disabled, one
\* after the other: the next run starts when the process of the last is gone
FreeInit == Init /\ actor = "newsdata"

FreeMain == NdMain /\ ~nd'.enable_paid_tier

FreeNext ==
    \/ FreeMain \/ NdFetchPage \/ NdArticle \/ NdNextPage
    \/ Finish \/ ProcessExit

FreeSpec == FreeInit /\ [][FreeNext]_vars

\* the runs of the NewsData aggregator one after the other on one store of
\* processed links
SeqInit == Init /\ actor = "newsdata"

SeqNext ==
    \/ NdMain \/ NdFetchPage \/ NdArticle \/ NdNextPage
    \/ Finish \/ RunOver

SeqSpec == SeqInit /\ [][SeqNext]_vars

KeyInit == Init /\ actor \in {"health", "newsdata"} /\ api_state = NoState

KeySpec == KeyInit /\ [][KeyEntry]_vars

\* ------------------------------------------------- claims on the collector
urls == SelectUrls(actor, source, custom_url)
live == ParsedFeeds(web, IF pc = "parse" THEN urls ELSE st.urls)
Finished == pc \in {"returned", "raised"}
AllParse == \A u \in Range(live) : \A k \in 1..Len(web[u].entries) : Parses(web[u].entries[k])
Total == TotalEntries(web, live)
CeilDiv(a, b) == (a + b - 1) \div b
Abs(x) == IF x < 0 THEN -x ELSE x
Count(u) == Cardinality({k \in 1..Len(st.articles) : st.articles[k].source = u})
Unread(u) == st.it[u] < Len(web[u].entries)
HitBad(u) == \E k \in 1..st.it[u] : ~Parses(web[u].entries[k])
Served(u) == Unread(u) /\ ~HitBad(u)

\* the entries of a feed before its first entry that fails to parse
RECURSIVE GoodPrefix(_)
GoodPrefix(entries) ==
    IF entries = <<>> \/ ~Parses(Head(entries)) THEN <<>>
    ELSE <<Head(entries)>> \o GoodPrefix(Tail(entries))

\* the entries of a feed that parse
Parseable(entries) == SelectSeq(entries, Parses)

\* round r of the interleave of the feeds `srcs`, feed u offering the entries E[u]
RoundOf(r, srcs, E) ==
    LET has == SelectSeq(srcs, LAMBDA u : Len(E[u]) >= r)
    IN  [k \in 1..Len(has) |-> RSSFeed(E[has[k]][r], has[k])]

RECURSIVE Rounds(_, _, _, _)
Rounds(r, upto, srcs, E) ==
    IF r > upto THEN <<>> ELSE RoundOf(r, srcs, E) \o Rounds(r + 1, upto, srcs, E)

Interleave(srcs, E) == Rounds(1, MaxEntries + PlainMax, srcs, E)

\* C1: with N >= 1 live sources whose entries all parse, the collector returns
\* exactly min(quota, total number of entries) entries.
C1_ExactQuota ==
    (Finished /\ Len(live) >= 1 /\ AllParse)
        => (pc = "returned" /\ Len(st.articles) = Min(max_articles, Total))

C1_Witness ==
    /\ pc = "returned" /\ Len(live) >= 2 /\ AllParse
    /\ max_articles >= 2 /\ max_articles < Total
    /\ Len(st.articles) = max_articles
    /\ \E u \in Range(live) : ~Unread(u)

C3_Original ==
    /\ \A u, v \in Range(live) :
          (Unread(u) /\ Unread(v)) => Abs(Count(u) - Count(v)) <= 1
    /\ \A u \in Range(live) :
          (\E v \in Range(live) : v # u /\ Unread(v))
              => Count(u) <= CeilDiv(max_articles, Len(live)) + 1

\* C3, amended: in every prefix of the output the counts of any two sources that
\* are both still served (unread entries left, not dropped at an entry that
\* failed to parse) differ by at most 1, and no source contributes more than
\* ceil(Q/N)+1 entries while every other live source is still served.
C3_Fairness ==
    /\ \A u, v \in Range(live) :
          (Served(u) /\ Served(v)) => Abs(Count(u) - Count(v)) <= 1
    /\ \A u \in Range(live) :
          (\A v \in Range(live) : v # u => Served(v))
              => Count(u) <= CeilDiv(max_articles, Len(live)) + 1

C3_Witness ==
    /\ Len(live) = 3 /\ Len(st.articles) >= 4
    /\ \E u, v \in Range(live) : Served(u) /\ Served(v) /\ Count(u) = Count(v) + 1
    /\ \E u \in Range(live) : ~Unread(u)

\* C8: a source that fails to fetch or has no entries contributes nothing, no
\* exception leaves the collector, and the result is the one of the same run with
\* the failed sources taken out of the configuration.
C8_SourceFailureIsolated ==
    (Finished /\ \E k \in 1..Len(urls) : ~IsLive(web, urls[k])) =>
        /\ pc = "returned"
        /\ \A k \in 1..Len(st.articles) : IsLive(web, st.articles[k].source)
        /\ st.articles = RunLoop(LoopInit(actor, source, web, live), web, max_articles).articles

\* the live sources in the order of the configuration
Configured == ParsedFeeds(web, urls)
\* the first round over them: one entry from each source whose first entry parses
FirstRound == RoundOf(1, Configured, [u \in AllUrls |-> GoodPrefix(web[u].entries)])

\* C14: for every source selection, 'all' included, the sources are visited in
\* the order of the configuration: the output begins with the first round taken
\* over the live sources in configured order (cut at the quota).
C14_ConfiguredOrder ==
    pc = "returned" =>
        Take(st.articles, Len(FirstRound)) = Take(FirstRound, max_articles)

\* the source whose iterator the next step of the loop reads, "" when the next
\* step reads none (the loop is over, or a pass is at its end)
NextPolled(s, max) ==
    CASE s.branch = "queue" /\ WhileCond(s, max) -> Head(s.feed_queue)
      [] s.branch = "pass" /\ s.i <= Len(s.feed_queue) /\ Len(s.articles) < max
            -> s.feed_queue[s.i]
      [] s.branch = "single" /\ ~s.done /\ ~s.raised -> s.feed_queue[1]
      [] OTHER -> ""

\* the source is out of the loop: taken off the queue, listed for removal at the
\* end of the pass, or the loop over the single source has ended
Dropped(s, u) ==
    \/ u \notin Range(s.feed_queue)
    \/ s.branch = "pass" /\ \E k \in s.feeds_to_remove : s.feed_queue[k] = u
    \/ s.done \/ s.raised

\* what is left to do: an entry to read or a removal for every source still in
\* the loop, and the rest of the pass
Variant(s, w) ==
    LET Left(u) == Len(w[u].entries) - s.it[u] + 1
        RECURSIVE Sum(_)
        Sum(k) == IF k = 0 THEN 0
                  ELSE (IF Dropped(s, s.feed_queue[k]) THEN 0 ELSE Left(s.feed_queue[k]))
                       + Sum(k - 1)
    IN  2 * Sum(Len(s.feed_queue)) + (s.i - 1) * (IF s.branch = "pass" THEN 1 ELSE 0)

\* C15: the loop never polls a source again once its iterator was found
\* exhausted (the source is dropped and stays dropped), and it terminates: every
\* step of the loop brings it nearer to its end, an entry appended or a source
\* removed, until the collector returns.
C15_NoRetryAndTerminates ==
    /\ [][pc = "poll" =>
            /\ \A u \in Range(live) :
                  /\ (NextPolled(st, max_articles) = u /\ ~Unread(u)) => Dropped(st', u)
                  /\ Dropped(st, u) => (NextPolled(st, max_articles) # u /\ Dropped(st', u))
            /\ st' # st =>
                  /\ Variant(st', web) < Variant(st, web)
                  /\ Variant(st', web) >= 0
                  /\ \/ Len(st'.articles) = Len(st.articles) + 1
                     \/ \E u \in Range(live) : ~Dropped(st, u) /\ Dropped(st', u)
                     \/ st.branch = "pass" /\ st'.i = 1]_vars
    /\ <>Finished

C15_Witness ==
    /\ pc = "returned" /\ Len(live) >= 2 /\ Len(st.articles) < max_articles
    /\ \E u \in Range(live) : st.it[u] >= 2 /\ ~Unread(u) /\ ~HitBad(u)
    /\ \E u \in Range(live) : HitBad(u)

\* C20: when reading an entry of a source raises a parse error, the source is
\* dropped for the rest of the run, the entries collected so far are kept, the
\* other sources go on being served and no exception leaves the collector,
\* whatever the source selection, a single live source included.
C20_EntryErrorDropsSource ==
    (Finished /\ \E u \in Range(live) : HitBad(u)) =>
        /\ pc = "returned"
        /\ st.articles = Take(Interleave(live, [u \in AllUrls |-> GoodPrefix(web[u].entries)]),
                              max_articles)

\* --------------------------------------------------- claims on the pipeline
\* the run is past the node RSSFetcher, which handed `articles` to processing
Handed == actor \in RssActors /\ pc \in {"ProcessAndSaveArticle", "end"}
\* what the collector returned to rss_fetcher in this run
Fetched == FetchRssFeeds(actor, source, custom_url, max_articles, web).articles
\* the fetched entries the store did not hold when the run began
Unseen == SelectSeq(Fetched, LAMBDA a : UrlKey(a.link) \notin seen0)
AllFail == \A u \in Range(urls) : ~IsLive(web, u)

\* C4: whenever fewer than max_articles unseen entries remain after the filter
\* and at least one entry was fetched, the list handed to processing has exactly
\* max_articles entries.
C4_RecyclingReachesQuota ==
    (Handed /\ Len(Unseen) < max_articles /\ Fetched # <<>>)
        => Len(articles) = max_articles

\* C6: in a run that does not recycle, no two entries handed to processing carry
\* the same link.
C6_NoRepeatedLink ==
    (Handed /\ ~recycled)
        => \A i, j \in 1..Len(articles) : i # j => articles[i].link # articles[j].link

\* C9: if every configured source fails to fetch or returns no entries, the
\* collector returns an empty sequence and the run ends normally: no article is
\* processed, no record is pushed, nothing is written to the store and no error
\* is raised.
C9_AllSourcesFail ==
    (actor \in RssActors /\ AllFail /\ pc \in {"ProcessAndSaveArticle", "end", "done"}
        /\ exit # "exit_code_1")
        => /\ Fetched = <<>>
           /\ articles = <<>>
           /\ pc # "ProcessAndSaveArticle"
           /\ last = NoAttempt
           /\ pushed = <<>>
           /\ store = seen0
           /\ exit \in {"none", "ok"}
           /\ pc = "done" => exit = "ok"

C9_Witness ==
    /\ actor \in RssActors /\ AllFail /\ pc = "done" /\ exit = "ok"
    /\ max_articles > 0 /\ seen0 # {}

\* the key under which the running actor stores a link
KeyOf(link) == IF actor = "newsdata" THEN SafeKey(link) ELSE UrlKey(link)

\* a call that leaves the platform: a feed, a search, a model, a news API
External == {"feed", "search", "llm", "newsdata", "gdelt", "av"}

\* C11: a run of an actor that needs a model key, started without the key and
\* with test mode off, is reported as failed and does nothing before that: no
\* feed is fetched, no article is processed or pushed, the store of processed
\* links is neither opened nor written.
C11_MissingKeyAborts ==
    (actor \in RssActors \cup {"markets"} /\ pc # "idle" /\ ~test_mode /\ ~key_ok) =>
        /\ calls = {}
        /\ pushed = <<>> /\ last = NoAttempt
        /\ store = seen0
        /\ pc = "done" /\ exit = "exit_code_1"

\* the calls that test mode replaces by canned data
Bypassed == {"search", "llm", "av"}

\* C13 as first stated: a run in test mode makes no external request of any
\* kind (feed fetch, search, model, news API) from start to finish.
C13_Original == test_mode => calls \cap External = {}

\* C13, amended: a run in test mode makes no search, model or Alpha Vantage
\* request from start to finish, these are replaced by canned data; the feeds
\* (and the GDELT article list) are fetched as in any run.
C13_TestModeBypassesPaidCalls == test_mode => calls \cap Bypassed = {}

C13_Witness ==
    /\ test_mode /\ actor \in RssActors /\ pc = "done" /\ exit = "ok"
    /\ Len(pushed) >= 2 /\ last.summary = "strict" /\ last.sentiment = "ok"
    /\ "feed" \in calls

\* the step marks the link l seen: the node processes an article of that link
\* and gets as far as set_value
Marks(l) ==
    /\ actor \in RssActors /\ pc = "ProcessAndSaveArticle"
    /\ processed_count < Len(articles) /\ articles[processed_count + 1].link = l
    /\ processed_count' = processed_count + 1 /\ last'.marked

C19_NormalizedKey ==
    /\ dedup # NoEntry =>
          KeyOfText(actor, dedup.text) = KeyOfTextNormalized(actor, dedup.text)
    /\ \A t \in dedup.marked :
          Lower(Trim(t)) = Lower(Trim(dedup.text)) =>
              /\ KeyOfText(actor, t) = KeyOfText(actor, dedup.text)
              /\ ~dedup.is_new

\* C12: nothing serialises the runs that share the store of processed links: a
\* run that has articles left can always take its next step, wherever the other
\* run stands, and it pushes the link it found unseen even if the other run has
\* marked it since.  (That two runs do both push one unseen link is C12_Witness.)
C12_NoLocking ==
    \A r \in RunIds :
        /\ runs[r].pc # "end" => ENABLED RaceStep(r)
        /\ runs[r].pc = "push" => ENABLED RacePush(r)

\* both runs found the same unseen link new and both pushed a record for it
C12_Witness ==
    \E l \in Links :
        /\ SafeKey(l) \notin seen0
        /\ \A r \in RunIds : runs[r].pc = "end" /\ \E k \in 1..Len(runs[r].pushed) : runs[r].pushed[k] = l

C17_MergedInInputOrder ==
    fan.pc = "merged" =>
        /\ \A k \in 1..Len(fan.output) : fan.output[k].analysis_of = fan.output[k].cluster_topic
        /\ [k \in 1..Len(fan.output) |-> fan.output[k].cluster_topic]
              = SelectSeq(fan.topics, LAMBDA t : ~fan.results[t].empty)

\* the tasks completed in another order than they were started
C17_Witness ==
    /\ fan.pc = "merged" /\ Len(fan.topics) = 3 /\ Len(fan.output) >= 2
    /\ fan.order = <<3, 1, 2>>

C7_Original ==
    /\ last.marked => last.pushed
    /\ (actor \in RssActors
           /\ (last.summary = "none" \/ last.sentiment = "Error" \/ last.storage = "push_failed"))
          => ~last.marked

\* C7: a key is written only after the article's record was pushed: every key
\* the run wrote belongs to a record the run pushed, and an article skipped for
\* want of a summary or whose push failed is not marked by that attempt.
C7_MarkAfterPush ==
    /\ last.marked => last.pushed
    /\ actor \in RssActors /\ last.summary = "none" => ~last.marked
    /\ last.storage = "push_failed" => ~last.marked
    /\ \A key \in store \ seen0 : \E k \in 1..Len(pushed) : KeyOf(pushed[k]) = key

C7_Witness ==
    /\ actor \in RssActors /\ last.sentiment = "Error"
    /\ last.pushed /\ last.marked /\ UrlKey(last.link) \in store \ seen0

\* the run is in the processing loop of the batch
InLoop ==
    \/ actor \in RssActors /\ pc = "ProcessAndSaveArticle"
    \/ actor = "gdelt" /\ pc = "enrich"
\* the latest step could not enrich its article: no summary, or the analysis failed
EnrichFailed == last.summary \in {"none", "snippet"} \/ last.sentiment = "Error"
\* the latest step was ended by a storage call or by the validation of the record
StorageFailed == last.storage \in {"push_failed", "set_failed", "invalid_url"}

AlreadySeen == SelectSeq(Fetched, LAMBDA a : UrlKey(a.link) \in seen0)

\* C21: in health-fitness and social-media the list handed to processing is the
\* unseen fetched entries in fetch order followed by the already-seen fetched
\* entries in fetch order: every fetched entry exactly once, so its length is
\* the number of fetched entries, which is at most max_articles.
C21_HandedIsReorderedFetch ==
    Handed => /\ articles = Unseen \o AlreadySeen
              /\ Len(articles) = Len(Fetched)
              /\ Len(Fetched) <= max_articles

C21_Witness ==
    /\ Handed /\ recycled
    /\ Unseen # <<>> /\ AlreadySeen # <<>>
    /\ articles[1].link # articles[2].link

\* C22: a named source that maps to several feed urls returns entries from those
\* feeds: with at least one of them live, their entries all parsing and a quota
\* of at least 1, the collector returns min(quota, total entries of the live
\* feeds) entries, for one live feed and for several alike.
C22_ListSourceReturnsEntries ==
    (actor = "luxury" /\ source = "luxurydaily" /\ Finished
        /\ Len(live) >= 1 /\ AllParse /\ max_articles >= 1)
        => (pc = "returned" /\ Len(st.articles) = Min(max_articles, Total))

\* what the queue-based scheduler returns for the list of urls, the entries and
\* the quota of the run in progress
QueueBased == RunLoop(LoopInit("world", source, web, st.urls), web, max_articles)

\* C23: the pass-based scheduler and the queue-based scheduler are
\* observationally equivalent: on the same ordered list of live feeds, the same
\* entries and the same quota, the pass-based run ends as the queue-based one
\* does and returns the same sequence, whether sources are exhausted or hit an
\* entry error mid-run, and whether one source or several are live.
C23_SchedulersEquivalent ==
    (actor = "health" /\ Finished /\ Len(live) >= 1)
        => /\ st.raised = QueueBased.raised
           /\ st.articles = QueueBased.articles

\* the same restricted to the runs with several live feeds, where the
\* pass-based scheduler takes its interleaving loop
C23_SeveralLive ==
    (actor = "health" /\ Finished /\ Len(live) >= 2)
        => /\ st.raised = QueueBased.raised
           /\ st.articles = QueueBased.articles

\* the order of the sources of a summary, and whether a source has one for the
\* article of the latest choice (a search in test mode gives the canned summary)
SummaryOrder == <<"strict", "loose", "rss">>
Yields(src) ==
    CASE src = "strict" -> pick.test \/ pick.strict
      [] src = "loose" -> pick.test \/ pick.loose
      [] OTHER -> pick.rss = "long"
Hits == {k \in 1..Len(SummaryOrder) : Yields(SummaryOrder[k])}
FirstHit == IF Hits = {} THEN "none"
            ELSE SummaryOrder[CHOOSE k \in Hits : \A j \in Hits : k <= j]

\* C24: the summary used is that of the first source that has one, in the order
\* strict search, loose search, cleaned feed summary (eligible only if the raw
\* feed summary has 50 characters or more); a source is consulted only if every
\* source before it gave nothing; and the article is skipped, nothing pushed and
\* nothing marked, exactly when all three give nothing.
C24_SummaryPriority ==
    pick # NoPick =>
        /\ pick.outcome.summary = FirstHit
        /\ \A k \in 1..Len(pick.consulted) :
              /\ pick.consulted[k] = SummaryOrder[k]
              /\ \A j \in 1..(k - 1) : ~Yields(SummaryOrder[j])
        /\ (~pick.outcome.pushed /\ ~pick.outcome.marked /\ ~pick.outcome.raised)
              <=> Hits = {}

C24_Witness ==
    /\ pick.consulted = <<"strict", "loose", "rss">>
    /\ pick.outcome.summary = "rss"
    /\ pick.outcome.pushed /\ pick.outcome.marked

\* C25: the recursion limit of the global-markets graph is sufficient for every
\* run: the number of articles collected from RSS and Alpha Vantage together,
\* one processing step each, never exceeds maxArticles * 2 + 5, and no run is
\* cut off by the limit.
C25_RecursionLimitSuffices ==
    /\ graph.pc # "recursion_error"
    /\ graph.pc # "idle" => graph.n <= graph.recursion_limit

\* the same for the runs whose Alpha Vantage answer has at most maxArticles
\* items, and for the runs in test mode (two canned articles)
C25_SufficesWhenAnswerCapped ==
    (graph.pc # "idle" /\ (graph.av <= graph.max \/ graph.av <= 2))
        => (graph.pc # "recursion_error" /\ graph.n <= graph.recursion_limit)

\* C26: with the paid tier disabled in every run, the persisted counter
\* requests_today never exceeds FREE_TIER_DAILY_LIMIT, nor does the counter of
\* the run in progress, and no request is sent while the counter is at the limit.
C26_FreeTierLimit ==
    /\ api_state.requests_today <= FREE_TIER_DAILY_LIMIT
    /\ nd.requests_today <= FREE_TIER_DAILY_LIMIT
    /\ nd.sent_at < FREE_TIER_DAILY_LIMIT

C26_Witness ==
    /\ actor = "newsdata" /\ pc = "end" /\ ~nd.enable_paid_tier
    /\ nd.sent_at = FREE_TIER_DAILY_LIMIT - 1
    /\ api_state.requests_today = FREE_TIER_DAILY_LIMIT
    /\ nd.next_page /\ nd.page = 2 /\ nd.articles_fetched < max_articles

\* C27: across the runs of the NewsData aggregator that follow one another on
\* one store, no link is pushed more than once: not twice by one run, and not by
\* a run after an earlier run pushed it.
C27_PushedOnce ==
    actor = "newsdata" =>
        /\ \A i, j \in 1..Len(pushed) : i # j => pushed[i] # pushed[j]
        /\ \A k \in 1..Len(pushed) : pushed[k] \notin earlier

\* what does hold: a link whose key the store held when the run began is not
\* pushed by the run, and no run pushes a link twice
C27_MarkedNotPushedAgain ==
    actor = "newsdata" =>
        /\ \A i, j \in 1..Len(pushed) : i # j => pushed[i] # pushed[j]
        /\ \A k \in 1..Len(pushed) : SafeKey(pushed[k]) \notin seen0

\* the stages of the autopilot in their order, the flag that enables each and
\* the dataset each has produced
Stages == <<"aggregator", "keyword_opportunity", "sentiment_intel", "content_idea_generator">>
StageNo(s) == CHOOSE k \in 1..4 : Stages[k] = s
Enabled(s) ==
    CASE s = "aggregator" -> auto.run_aggregator
      [] s = "keyword_opportunity" -> auto.run_keyword_analysis
      [] s = "sentiment_intel" -> auto.run_sentiment_analysis
      [] OTHER -> auto.run_idea_generation
Produced(s) ==
    CASE s = "aggregator" -> auto.aggregator_dataset_id
      [] s = "keyword_opportunity" -> auto.keyword_dataset_id
      [] s = "sentiment_intel" -> auto.sentiment_dataset_id
      [] OTHER -> auto.content_dataset_id

\* the stages ran in the fixed order, each enabled, and each later stage after
\* an earlier stage that produced a dataset
StagesInOrder ==
    /\ \A k \in 1..Len(auto.ran) :
          /\ Enabled(auto.ran[k].stage)
          /\ \A j \in 1..(k - 1) : StageNo(auto.ran[j].stage) < StageNo(auto.ran[k].stage)
          /\ auto.ran[k].stage # "aggregator" => (k > 1 /\ Produced(auto.ran[k - 1].stage) # None)
    /\ (auto.pc # "idle" /\ ~auto.run_aggregator) => auto.ran = <<>>

\* C28 as stated: the stages run in the fixed order; a later stage runs only if
\* it is enabled and an earlier stage of the run produced a dataset, and its
\* input is the dataset of the most recent earlier stage that ran; with the
\* aggregator disabled no later stage runs.
C28_Original ==
    /\ StagesInOrder
    /\ \A k \in 2..Len(auto.ran) : auto.ran[k].input = Produced(auto.ran[k - 1].stage)

\* C28: the same, except that idea generation is not given the dataset of the
\* most recent earlier stage: it is given the dataset named
\* "cleaned-input-for-content-gen", to which the items of that dataset that
\* have a topic and articles were pushed.
C28_StagePipeline ==
    /\ StagesInOrder
    /\ \A k \in 2..Len(auto.ran) :
          IF auto.ran[k].stage = "content_idea_generator"
          THEN /\ auto.ran[k].input = "cleaned-input-for-content-gen"
               /\ auto.cleaned_from = Produced(auto.ran[k - 1].stage)
          ELSE auto.ran[k].input = Produced(auto.ran[k - 1].stage)

C28_Witness ==
    /\ auto.pc = "done"
    /\ Len(auto.ran) = 4
    /\ auto.ran[3].input = "d2"
    /\ auto.cleaned_from = "d3"

\* the cache file was read and written by every run so far
CacheShared == yp.faults \cap {"load", "save"} = {}

\* link gathering returned links absent from the cache and distinct from each
\* other, at most max_total
GatheredNew ==
    /\ Len(yp.source_links) <= yp.max_total
    /\ \A k \in 1..Len(yp.source_links) : yp.source_links[k] \notin yp.cache0
    /\ \A i, j \in 1..Len(yp.source_links) : i # j => yp.source_links[i] # yp.source_links[j]

\* C29: across the runs that share the link cache, no business link is passed
\* to the detail scraper more than once: gathering returns only new, distinct
\* links, at most max_total, and every link attempted in a run, whatever became
\* of its scrape and however the loop ended, is in the cache saved at the end of
\* the run together with all links cached before.
C29_ScrapedOnce ==
    CacheShared =>
        /\ GatheredNew
        /\ \A k \in 1..Len(yp.attempted) : yp.attempted[k] \notin yp.before
        /\ \A i, j \in 1..Len(yp.attempted) : i # j => yp.attempted[i] # yp.attempted[j]
        /\ (yp.pc \in {"done", "idle"} /\ yp.attempted # <<>>)
              => (yp.cache0 \cup Range(yp.attempted)) \subseteq yp.cache

\* the same for the runs so far in which no call of the detail scraper raised
C29_UnlessScrapeRaised ==
    (CacheShared /\ "scrape" \notin yp.faults) =>
        /\ GatheredNew
        /\ \A k \in 1..Len(yp.attempted) : yp.attempted[k] \notin yp.before
        /\ \A i, j \in 1..Len(yp.attempted) : i # j => yp.attempted[i] # yp.attempted[j]
        /\ (yp.pc \in {"done", "idle"} /\ yp.attempted # <<>>)
              => (yp.cache0 \cup Range(yp.attempted)) \subseteq yp.cache

\* the propagation is over and handle_unclassified_toplevel has not yet acted
Propagated == cat.pc = "propagated"

\* C30: after the hierarchy propagation, every row that is still unclassified
\* is a top-level category: no row that has a parent remains unclassified.
C30_UnclassifiedAreToplevel ==
    Propagated =>
        \A r \in DOMAIN cat.type_corrected :
            cat.type_corrected[r] = NaN => cat.parent_id_corrected[r] = 0

\* in files of at most MaxRows rows, a row that has a parent remains
\* unclassified only if its parent is unclassified as well
C30_UnclassifiedUnderUnclassified ==
    Propagated =>
        \A r \in DOMAIN cat.type_corrected :
            (cat.type_corrected[r] = NaN /\ cat.parent_id_corrected[r] # 0)
                => cat.type_corrected[cat.parent_id_corrected[r]] = NaN

====
